---- MODULE Spec2Model ----
(***************************************************************************)
(* A model of stan-context, the dependency-graph compiler:                 *)
(*   - the finalizer (core/finalize.ts) and the node factory               *)
(*     (core/nodes.ts),                                                    *)
(*   - the incremental planner (core/incremental.ts),                      *)
(*   - the TS/JS provider (providers/ts/extract.ts, analyze.ts, tunnel.ts),*)
(*   - the driver generateDependencyGraph,                                 *)
(*   - the selection helper summarizeDependencySelection.                  *)
(* Strings that the code only compares are kept as strings; the order      *)
(* String.prototype.localeCompare puts on them is the table IdOrder.       *)
(***************************************************************************)
EXTENDS Integers, Sequences, FiniteSets, TLC

VARIABLES
    mode,          \* which entry point the current behaviour exercises
    rawGraph,      \* finalizer: the graph handed to finalizeGraph
    finalized,     \* finalizer: finalizeGraph(rawGraph), or NoGraph
    refinalized,   \* finalizer: finalizeGraph(finalized), or NoGraph
    selGraph,      \* selection: args.graph
    include,       \* selection: args.include
    exclude,       \* selection: args.exclude ?? []
    options,       \* selection: args.options
    summary,       \* selection: what summarizeDependencySelection returned
    fs,            \* build: file -> the hash of its text, or Absent
    tsAvailable,   \* build: whether tryLoadTypeScript() finds the module
    packageRootCache, \* build: the module-level cache of tunnel.ts
    built,         \* build: the last call of generateDependencyGraph
    edits,         \* build: file system changes made so far
    builds,        \* build: calls made so far
    call           \* a single call of a function of core/: arguments and result

finVars == <<rawGraph, finalized, refinalized>>

selVars == <<selGraph, include, exclude, options, summary>>

buildVars == <<fs, tsAvailable, packageRootCache, built, edits, builds>>

vars == <<mode, finVars, selVars, buildVars, call>>

-----------------------------------------------------------------------------
(* Generic helpers.                                                        *)

Range(s) == {s[i] : i \in 1..Len(s)}

IndexOf(s, x) == CHOOSE i \in 1..Len(s) : s[i] = x

\* Body(value), with the value computed once before Body uses it.
Bind(value, Body(_)) == CHOOSE r \in {Body(v) : v \in {value}} : TRUE

\* All sequences over S of length at most n.
SeqsUpTo(S, n) == UNION {[1..k -> S] : k \in 0..n}

\* All sequences over S of length at most n without repeated elements.
InjSeqsUpTo(S, n) ==
    {s \in SeqsUpTo(S, n) : \A i, j \in 1..Len(s) : i # j => s[i] # s[j]}

-----------------------------------------------------------------------------
(* Strings and their order.                                                *)

\* Every NodeId of the model, in the order localeCompare gives them
\* (punctuation before letters, "_" before ":").
IdOrder ==
    << " ", "../shared/x", "./b", "./nope", "/shared/x.ts",
       "a.ts", "b.ts", "c.ts", "gen/x.ts",
       "node_modules/legacy/01.d.ts", "node_modules/legacy/02.d.ts",
       "node_modules/legacy/03.d.ts", "node_modules/legacy/04.d.ts",
       "node_modules/legacy/05.d.ts", "node_modules/legacy/06.d.ts",
       "node_modules/legacy/07.d.ts", "node_modules/legacy/08.d.ts",
       "node_modules/legacy/09.d.ts", "node_modules/legacy/10.d.ts",
       "node_modules/legacy/11.d.ts", "node_modules/legacy/12.d.ts",
       "node_modules/other/index.d.ts", "node_modules/pkg/a.d.ts",
       "node_modules/pkg/index.d.ts", "node:fs", "package.json", "zz.ts" >>

KindOrder == << "dynamic", "runtime", "type" >>

ResolutionOrder == << "explicit", "implicit" >>

Sign(n) == IF n < 0 THEN -1 ELSE IF n > 0 THEN 1 ELSE 0

\* a.localeCompare(b) for two strings of the table `order`.
localeCompare(order, a, b) == Sign(IndexOf(order, a) - IndexOf(order, b))

-----------------------------------------------------------------------------
(* Nodes and metadata (types.ts, core/nodes.ts).                           *)

\* Absent optional fields.
NoHash == "<no hash>"
NoSize == 0 - 1
NoFlag == "<no flag>"
NoDesc == << "<no description>" >>

\* graph.nodes[id].metadata === undefined
NoMeta == [has |-> FALSE, hash |-> NoHash, isOutsideRoot |-> NoFlag, size |-> NoSize]

\* String.prototype.trim on a description kept as a sequence of characters.
RECURSIVE TrimLeft(_)
TrimLeft(s) ==
    IF s # <<>> /\ Head(s) = " " THEN TrimLeft(Tail(s)) ELSE s

RECURSIVE TrimRight(_)
TrimRight(s) ==
    IF s # <<>> /\ s[Len(s)] = " " THEN TrimRight(SubSeq(s, 1, Len(s) - 1)) ELSE s

Trim(s) == TrimRight(TrimLeft(s))

\* makeMetadata: keep hash when truthy, isOutsideRoot when truthy, size when
\* a number; undefined when nothing is kept.
makeMetadata(hash, isOutsideRoot, size) ==
    LET h == IF hash # NoHash /\ hash # "" THEN hash ELSE NoHash
        o == IF isOutsideRoot = "true" THEN "true" ELSE NoFlag
        z == IF size # NoSize THEN size ELSE NoSize
    IN  IF h = NoHash /\ o = NoFlag /\ z = NoSize
        THEN NoMeta
        ELSE [has |-> TRUE, hash |-> h, isOutsideRoot |-> o, size |-> z]

\* makeNode: the description is kept, trimmed, when it is a non-blank string.
makeNode(id, kind, language, description, metadata) ==
    [ id          |-> id,
      kind        |-> kind,
      language    |-> language,
      description |-> IF description # NoDesc /\ Trim(description) # <<>>
                      THEN Trim(description) ELSE NoDesc,
      metadata    |-> IF metadata.has THEN metadata ELSE NoMeta ]

\* inferLanguageFromPath, on the ids of the model.
inferLanguageFromPath(id) ==
    IF id \in {"a.ts", "b.ts", "c.ts", "gen/x.ts", "zz.ts", "/shared/x.ts",
               "node_modules/other/index.d.ts", "node_modules/pkg/a.d.ts",
               "node_modules/pkg/index.d.ts"}
    THEN "ts"
    ELSE IF id \in {"package.json", "node_modules/pkg/package.json",
                    "node_modules/other/package.json"}
    THEN "json" ELSE "other"

-----------------------------------------------------------------------------
(* Graphs.  A Record<NodeId, T> is the sequence of its entries in key      *)
(* insertion order.                                                        *)

NoGraph == [nodes |-> << >>, edges |-> << >>, none |-> TRUE]

Graph(nodes, edges) == [nodes |-> nodes, edges |-> edges, none |-> FALSE]

Keys(rec) == {rec[i].key : i \in 1..Len(rec)}

KeySeq(rec) == [i \in 1..Len(rec) |-> rec[i].key]

\* rec[key], for a key of rec.
Get(rec, key) == (CHOOSE i \in 1..Len(rec) : rec[i].key = key)

NodeOf(g, id) == g.nodes[Get(g.nodes, id)].val

\* g.edges[id] ?? []
EdgesOf(g, id) ==
    IF id \in Keys(g.edges) THEN g.edges[Get(g.edges, id)].val ELSE << >>

-----------------------------------------------------------------------------
(* The finalizer (core/finalize.ts).                                       *)

\* Insert entry e into the key-sorted sequence s, after equal keys.
RECURSIVE InsertByKey(_, _)
InsertByKey(sorted, e) ==
    CHOOSE r \in {
        IF s = << >> THEN << e >>
        ELSE IF localeCompare(IdOrder, e.key, Head(s).key) < 0
             THEN << e >> \o s
             ELSE << Head(s) >> \o InsertByKey(Tail(s), e)
        : s \in {sorted}} : TRUE

RECURSIVE SortEntries(_)
SortEntries(entries) ==
    CHOOSE r \in {
        IF rec = << >> THEN << >>
        ELSE InsertByKey(SortEntries(SubSeq(rec, 1, Len(rec) - 1)), rec[Len(rec)])
        : rec \in {entries}} : TRUE

\* sortKeys: a new record with the keys inserted in localeCompare order.
sortKeys(rec) == SortEntries(rec)

\* normalizeNode
normalizeNode(n) ==
    LET md == IF n.metadata.has
              THEN makeMetadata(n.metadata.hash,
                                IF n.metadata.isOutsideRoot = "true"
                                THEN "true" ELSE "false",
                                n.metadata.size)
              ELSE NoMeta
        description == IF n.description # NoDesc /\ Trim(n.description) # <<>>
                       THEN Trim(n.description) ELSE NoDesc
    IN  makeNode(n.id, n.kind, n.language, description, md)

\* The comparator of sortAndDedupeEdges: target, then kind, then resolution.
edgeCompare(a, b) ==
    LET t == localeCompare(IdOrder, a.target, b.target)
        k == localeCompare(KindOrder, a.kind, b.kind)
    IN  IF t # 0 THEN t
        ELSE IF k # 0 THEN k
        ELSE localeCompare(ResolutionOrder, a.resolution, b.resolution)

\* The key `${target}\0${kind}\0${resolution}` of the seen-set.
edgeKey(e) == << e.target, e.kind, e.resolution >>

\* The first loop of sortAndDedupeEdges: keep the first edge of each key.
RECURSIVE DedupeEdges(_, _)
DedupeEdges(list, seenKeys) ==
    CHOOSE r \in {
        IF edges = << >> THEN << >>
        ELSE IF edgeKey(Head(edges)) \in seen
             THEN DedupeEdges(Tail(edges), seen)
             ELSE << Head(edges) >>
                  \o DedupeEdges(Tail(edges), seen \cup {edgeKey(Head(edges))})
        : edges \in {list}, seen \in {seenKeys}} : TRUE

\* Array.prototype.sort (stable) under edgeCompare.
RECURSIVE InsertEdge(_, _)
InsertEdge(sorted, e) ==
    CHOOSE r \in {
        IF s = << >> THEN << e >>
        ELSE IF edgeCompare(e, Head(s)) < 0
             THEN << e >> \o s
             ELSE << Head(s) >> \o InsertEdge(Tail(s), e)
        : s \in {sorted}} : TRUE

RECURSIVE SortEdges(_)
SortEdges(list) ==
    CHOOSE r \in {
        IF edges = << >> THEN << >>
        ELSE InsertEdge(SortEdges(SubSeq(edges, 1, Len(edges) - 1)), edges[Len(edges)])
        : edges \in {list}} : TRUE

\* A bug: the sort without the de-duplication loop.
sortAndDedupeEdges_NoDedupe(edges) == SortEdges(edges)

\* A bug: only neighbouring duplicates are dropped, before the sort.
RECURSIVE DedupeAdjacent(_)
DedupeAdjacent(edges) ==
    IF Len(edges) < 2 THEN edges
    ELSE IF edgeKey(edges[1]) = edgeKey(edges[2])
         THEN DedupeAdjacent(Tail(edges))
         ELSE << Head(edges) >> \o DedupeAdjacent(Tail(edges))

sortAndDedupeEdges_AdjacentOnly(edges) == SortEdges(DedupeAdjacent(edges))

sortAndDedupeEdges(edges) == SortEdges(DedupeEdges(edges, {}))

\* A bug: only the keys the raw edges map already has get an edge list.
finalizeGraph_EdgesAsGiven(raw) ==
    LET nodes ==
            sortKeys([i \in 1..Len(raw.nodes) |->
                [key |-> raw.nodes[i].key, val |-> normalizeNode(raw.nodes[i].val)]])
        given == SelectSeq(nodes, LAMBDA e : e.key \in Keys(raw.edges))
    IN  Graph(nodes,
              sortKeys([i \in 1..Len(given) |->
                          [key |-> given[i].key,
                           val |-> sortAndDedupeEdges(EdgesOf(raw, given[i].key))]]))

\* finalizeGraph
finalizeGraph(raw) ==
    CHOOSE g \in {
        Graph(nodes,
              sortKeys([i \in 1..Len(nodes) |->
                          [key |-> nodes[i].key,
                           val |-> sortAndDedupeEdges(EdgesOf(graph, nodes[i].key))]]))
        : graph \in {raw},
          nodes \in {sortKeys([i \in 1..Len(raw.nodes) |->
                                 [key |-> raw.nodes[i].key,
                                  val |-> normalizeNode(raw.nodes[i].val)]])}} : TRUE

-----------------------------------------------------------------------------
(* The selection helper (selection/summarizeDependencySelection.ts).       *)

VALID_EDGE_KINDS == << "runtime", "type", "dynamic" >>

DEFAULT_EDGE_KINDS == VALID_EDGE_KINDS

DEFAULT_DROP_NODE_KINDS == << "builtin", "missing" >>

DEFAULT_MAX_TOP == 10

DEFAULT_HASH_SIZE_ENFORCEMENT == "warn"

\* A value that is not a string where the code expects one.
NotAString == "<not a string>"

\* An unknown third element of an entry (or option): undefined, an array of
\* items, or a number.
KUndef == [t |-> "undefined", items |-> << >>, n |-> 0]

KArr(items) == [t |-> "array", items |-> items, n |-> 0]

KMask(n) == [t |-> "number", items |-> << >>, n |-> n]

\* An unknown depth: a finite number kept as twice its value (so that x.5 is
\* a value), NaN, Infinity, a string, or undefined.
DNum(twice) == [t |-> "number", twice |-> twice]

DInt(d) == DNum(2 * d)

DOther(t) == [t |-> t, twice |-> 0]

DUndef == DOther("undefined")

\* typeof n === 'number'
IsTypeofNumber(n) == n.t \in {"number", "NaN", "Infinity"}

\* The entry forms: a bare string, or a tuple [nodeId, depth, edgeKinds].
Bare(id) == [form |-> "string", nodeId |-> id, depth |-> DUndef, kinds |-> KUndef]

Tuple(id, depth, kinds) == [form |-> "tuple", nodeId |-> id, depth |-> depth, kinds |-> kinds]

\* uniq: Array.from(new Set(items)), first occurrences in order.
RECURSIVE uniq(_)
uniq(list) ==
    CHOOSE r \in {
        IF items = << >> THEN << >>
        ELSE CHOOSE u \in {
                IF items[Len(items)] \in Range(init) THEN init
                ELSE Append(init, items[Len(items)])
                : init \in {uniq(SubSeq(items, 1, Len(items) - 1))}} : TRUE
        : items \in {list}} : TRUE

\* clampInt
clampInt(n, min) ==
    IF n.t = "number"
    THEN LET v == n.twice \div 2 IN IF v > min THEN v ELSE min
    ELSE min

\* The warning messages, as the fields the code interpolates into them.
Warning(msg, entry, kind, id, depth) ==
    [msg |-> msg, entry |-> entry, kind |-> kind, id |-> id, depth |-> depth]

\* The message texts in localeCompare order, and the texts interpolated
\* into them.
MsgOrder ==
    << "Dropped <kind> node from selection: <id>",
       "Invalid depth for <entry>: expected integer >= 0; using <depth>.",
       "Invalid edgeKind for <entry>: <kind>; ignoring.",
       "Invalid edgeKinds for <entry>: expected array; using none.",
       "Invalid nodeId for <entry>: expected non-empty string.",
       "metadata.size missing for file node: <id>",
       "metadata.size missing for hashed node: <id>",
       "No valid edgeKinds for <entry>; no edges will be traversed.",
       "Selected nodeId not present in graph.nodes: <id>" >>

WarnKindOrder == << "", "bogus", "builtin", "missing" >>

WarnIdOrder == << "" >> \o IdOrder

\* a.localeCompare(b) on two warning messages.
warningCompare(a, b) ==
    LET m == localeCompare(MsgOrder, a.msg, b.msg)
        e == Sign(a.entry - b.entry)
        k == localeCompare(WarnKindOrder, a.kind, b.kind)
        i == localeCompare(WarnIdOrder, a.id, b.id)
    IN  IF m # 0 THEN m
        ELSE IF e # 0 THEN e
        ELSE IF k # 0 THEN k
        ELSE IF i # 0 THEN i
        ELSE Sign(a.depth - b.depth)

IsValidEdgeKind(k) == k \in Range(VALID_EDGE_KINDS)

IsInvalidEdgeKindString(k) == k # NotAString /\ ~IsValidEdgeKind(k)

\* normalizeEdgeKinds: the kinds, and the warnings it adds.
normalizeEdgeKinds(raw, fallback, index) ==
    IF raw.t = "undefined" THEN [out |-> fallback, warnings |-> {}]
    ELSE IF raw.t # "array"
    THEN [out |-> << >>,
          warnings |-> {Warning(MsgOrder[4], index, "", "", 0)}]
    ELSE LET out == uniq(SelectSeq(raw.items, IsValidEdgeKind))
             invalid == SelectSeq(raw.items, IsInvalidEdgeKindString)
         IN  [out |-> out,
              warnings |->
                  {Warning(MsgOrder[3], index, k, "", 0) : k \in Range(uniq(invalid))}
                  \cup (IF Len(raw.items) > 0 /\ out = << >>
                        THEN {Warning(MsgOrder[8], index, "", "", 0)} ELSE {})]

\* !nodeId.trim(), on the strings of the model.
IsBlank(id) == id \in {"", " "}

\* normalizeEntry: the normalized entry, and the warnings it adds.
normalizeEntry(entry, defaultEdgeKinds, index) ==
    IF entry.form = "string"
    THEN [nodeId |-> entry.nodeId, depth |-> 0, edgeKinds |-> defaultEdgeKinds,
          warnings |-> {}]
    ELSE LET nodeId == entry.nodeId
             depth == clampInt(entry.depth, 0)
             edgeKinds == normalizeEdgeKinds(entry.kinds, defaultEdgeKinds, index)
         IN  IF nodeId = NotAString \/ IsBlank(nodeId)
             THEN [nodeId |-> "", depth |-> 0, edgeKinds |-> << >>,
                   warnings |-> edgeKinds.warnings
                                \cup {Warning(MsgOrder[5], index, "", "", 0)}]
             ELSE [nodeId |-> nodeId, depth |-> depth, edgeKinds |-> edgeKinds.out,
                   warnings |->
                       edgeKinds.warnings
                       \cup (IF /\ ~(entry.depth.t = "number" /\ entry.depth.twice = 2 * depth)
                                /\ \/ entry.depth.t # "number"
                                   \/ entry.depth.twice < 0
                                   \/ entry.depth.twice % 2 # 0
                             THEN {Warning(MsgOrder[2], index, "", "", depth)}
                             ELSE {})]

\* The state of expandClosure: the selected set, the bestRemainingDepth
\* map, the queue, and the warnings added so far.
bestOf(st, id) == IF id \in DOMAIN st.best THEN st.best[id] ELSE 0 - 1

\* push without the bestRemainingDepth test.
push_AlwaysEnqueues(st, q) ==
    [st EXCEPT
       !.best = [x \in DOMAIN st.best \cup {q.id} |->
                   IF x = q.id THEN q.remaining ELSE st.best[x]],
       !.queue = Append(st.queue, q)]

\* push
push(st, q) ==
    IF q.remaining <= bestOf(st, q.id) THEN st
    ELSE [st EXCEPT
            !.best = [x \in DOMAIN st.best \cup {q.id} |->
                        IF x = q.id THEN q.remaining ELSE st.best[x]],
            !.queue = Append(st.queue, q)]

\* args.entries.forEach(...), from entry i on.
RECURSIVE SeedEntries(_, _, _, _)
SeedEntries(entries, i, defaultEdgeKinds, state) ==
    LET Body(st) ==
            IF i > Len(entries) THEN st
            ELSE LET norm == normalizeEntry(entries[i], defaultEdgeKinds, i - 1)
                     warned == [st EXCEPT !.warnings = st.warnings \cup norm.warnings]
                 IN  IF norm.nodeId = ""
                     THEN SeedEntries(entries, i + 1, defaultEdgeKinds, warned)
                     ELSE SeedEntries(entries, i + 1, defaultEdgeKinds,
                              push([warned EXCEPT
                                      !.selected = warned.selected \cup {norm.nodeId}],
                                   [id |-> norm.nodeId, remaining |-> norm.depth,
                                    edgeKinds |-> norm.edgeKinds]))
    IN  Bind(state, Body)

\* for (const e of outs) ..., from the head of outs on.
RECURSIVE VisitOuts(_, _, _)
VisitOuts(outs, cur, state) ==
    LET Body(st) ==
            IF outs = << >> THEN st
            ELSE LET e == Head(outs) IN
                 IF e.kind \notin Range(cur.edgeKinds)
                 THEN VisitOuts(Tail(outs), cur, st)
                 ELSE VisitOuts(Tail(outs), cur,
                          push([st EXCEPT !.selected = st.selected \cup {e.target}],
                               [id |-> e.target, remaining |-> cur.remaining - 1,
                                edgeKinds |-> cur.edgeKinds]))
    IN  Bind(state, Body)

\* while (queue.length) ...
RECURSIVE DrainQueue(_, _)
DrainQueue(graph, state) ==
    LET Body(st) ==
            IF st.queue = << >> THEN st
            ELSE LET cur == Head(st.queue)
                     rest == [st EXCEPT !.queue = Tail(st.queue)]
                 IN  IF cur.remaining <= 0 \/ cur.edgeKinds = << >>
                     THEN DrainQueue(graph, rest)
                     ELSE DrainQueue(graph, VisitOuts(EdgesOf(graph, cur.id), cur, rest))
    IN  Bind(state, Body)

\* expandClosure: the selected set, and the warnings it adds.
expandClosure(graph, entries, defaultEdgeKinds) ==
    LET st0 == [selected |-> {}, best |-> << >>, queue |-> << >>, warnings |-> {}]
        st == DrainQueue(graph, SeedEntries(entries, 1, defaultEdgeKinds, st0))
    IN  [selected |-> st.selected, warnings |-> st.warnings]

HasNode(graph, id) == id \in Keys(graph.nodes)

\* isFileNodeWithHash
isFileNodeWithHash(n) ==
    n.kind \in {"source", "external"} /\ n.metadata.hash # NoHash

\* getBytesForNode counting one byte for an id that is no node.
getBytesForNode_UnknownCounts(graph, id) ==
    IF ~HasNode(graph, id) THEN 1
    ELSE IF NodeOf(graph, id).metadata.size # NoSize
    THEN NodeOf(graph, id).metadata.size ELSE 0

\* getBytesForNode, for a node id of the graph or not.
getBytesForNode(graph, id) ==
    IF HasNode(graph, id) /\ NodeOf(graph, id).metadata.size # NoSize
    THEN NodeOf(graph, id).metadata.size ELSE 0

\* Array.from(set).sort(localeCompare) on node ids.
SortIds(S) == LET In(id) == id \in S IN SelectSeq(IdOrder, In)

\* Array.from(warnings).sort(localeCompare)
RECURSIVE SortWarnings(_)
SortWarnings(warnings) ==
    LET Body(S) ==
            IF S = {} THEN << >>
            ELSE LET first == CHOOSE w \in S : \A v \in S : warningCompare(w, v) <= 0
                 IN  << first >> \o SortWarnings(S \ {first})
    IN  Bind(warnings, Body)

\* The comparator of `largest`: bytes descending, then nodeId.
sizedCompare(a, b) ==
    IF b.bytes - a.bytes # 0 THEN Sign(b.bytes - a.bytes)
    ELSE localeCompare(IdOrder, a.nodeId, b.nodeId)

RECURSIVE InsertSized(_, _)
InsertSized(s, e) ==
    IF s = << >> THEN << e >>
    ELSE IF sizedCompare(e, Head(s)) < 0
         THEN << e >> \o s
         ELSE << Head(s) >> \o InsertSized(Tail(s), e)

RECURSIVE SortSized(_)
SortSized(sized) ==
    IF sized = << >> THEN << >>
    ELSE InsertSized(SortSized(SubSeq(sized, 1, Len(sized) - 1)), sized[Len(sized)])

RECURSIVE SumBytes(_)
SumBytes(sized) ==
    IF sized = << >> THEN 0 ELSE Head(sized).bytes + SumBytes(Tail(sized))

\* A bug: the exclude closure is not subtracted.
excludesWin_NothingSubtracted(includeSet, excludeSet) == includeSet

\* for (const id of excludeSet) includeSet.delete(id)
excludesWin(includeSet, excludeSet) == includeSet \ excludeSet

NoSummary ==
    [none |-> TRUE, threw |-> FALSE, selectedNodeIds |-> << >>, selectedCount |-> 0,
     totalBytes |-> 0, largest |-> << >>, warnings |-> << >>]

\* uniq(options.defaultEdgeKinds.filter(valid) ?? DEFAULT_EDGE_KINDS)
defaultEdgeKindsOf(opts) ==
    uniq(IF opts.defaultEdgeKinds.t = "array"
         THEN SelectSeq(opts.defaultEdgeKinds.items, IsValidEdgeKind)
         ELSE DEFAULT_EDGE_KINDS)

\* summarizeDependencySelection; `threw` when it throws (the hashed nodes
\* without a size are then the selectedNodeIds of the record).
summarizeDependencySelection(graph, inc, exc, opts) ==
    LET defaultEdgeKinds == defaultEdgeKindsOf(opts)
        dropNodeKinds ==
            uniq(IF opts.dropNodeKinds.t = "array"
                 THEN opts.dropNodeKinds.items ELSE DEFAULT_DROP_NODE_KINDS)
        maxTop ==
            IF IsTypeofNumber(opts.maxTop) THEN clampInt(opts.maxTop, 0)
            ELSE DEFAULT_MAX_TOP
        hashSizeEnforcement ==
            IF opts.hashSizeEnforcement = "undefined"
            THEN DEFAULT_HASH_SIZE_ENFORCEMENT ELSE opts.hashSizeEnforcement
        Rest(closures) ==
          LET
            includeClosure == closures[1]
            excludeClosure == closures[2]
            afterExcludes == excludesWin(includeClosure.selected, excludeClosure.selected)
            dropped ==
                {id \in afterExcludes :
                    /\ HasNode(graph, id)
                    /\ NodeOf(graph, id).kind \in {"builtin", "missing"}
                    /\ NodeOf(graph, id).kind \in Range(dropNodeKinds)}
            includeSet == afterExcludes \ dropped
            selectedNodeIds == SortIds(includeSet)
            sized ==
                [i \in 1..Len(selectedNodeIds) |->
                    [nodeId |-> selectedNodeIds[i],
                     bytes |-> getBytesForNode(graph, selectedNodeIds[i])]]
            missingSizeFileNode ==
                {id \in includeSet :
                    /\ HasNode(graph, id)
                    /\ NodeOf(graph, id).kind \in {"source", "external"}
                    /\ NodeOf(graph, id).metadata.size = NoSize}
            hashedMissing ==
                {id \in missingSizeFileNode : isFileNodeWithHash(NodeOf(graph, id))}
            fileMissingNonHashed == missingSizeFileNode \ hashedMissing
            warnings ==
                includeClosure.warnings \cup excludeClosure.warnings
                \cup {Warning(MsgOrder[1], 0, NodeOf(graph, id).kind, id, 0) : id \in dropped}
                \cup {Warning(MsgOrder[9], 0, "", id, 0) :
                        id \in {x \in includeSet : ~HasNode(graph, x)}}
                \cup (IF hashSizeEnforcement = "warn"
                      THEN {Warning(MsgOrder[7], 0, "", id, 0) : id \in hashedMissing}
                      ELSE {})
                \cup {Warning(MsgOrder[6], 0, "", id, 0) : id \in fileMissingNonHashed}
            sorted == SortSized(sized)
        IN  IF hashSizeEnforcement = "error" /\ hashedMissing # {}
            THEN [none |-> FALSE, threw |-> TRUE, selectedNodeIds |-> SortIds(hashedMissing),
                  selectedCount |-> Cardinality(hashedMissing), totalBytes |-> 0,
                  largest |-> << >>, warnings |-> << >>]
            ELSE [none |-> FALSE, threw |-> FALSE,
                  selectedNodeIds |-> selectedNodeIds,
                  selectedCount |-> Len(selectedNodeIds),
                  totalBytes |-> SumBytes(sized),
                  largest |-> SubSeq(sorted, 1, IF maxTop < Len(sorted) THEN maxTop ELSE Len(sorted)),
                  warnings |-> SortWarnings(warnings)]
    IN  Bind(<< expandClosure(graph, inc, defaultEdgeKinds),
                expandClosure(graph, exc, defaultEdgeKinds) >>, Rest)

-----------------------------------------------------------------------------
(* The file system and the modules in it.  A file is absent or holds one   *)
(* of a few texts; a text is known by its sha256 hash and is kept as what  *)
(* the parser gives for it: its size, its module doc comment and its       *)
(* top-level statements.                                                   *)

Absent == "<absent>"

\* A statement of a module.
Stmt ==
    [s |-> "", specifier |-> "", typeOnly |-> FALSE, default |-> "", bindings |-> "none",
     ns |-> "", elements |-> << >>, name |-> "", exported |-> FALSE, depth |-> 0]

\* `name`, `propertyName as name`, `type name` inside braces.
El(name) == [name |-> name, propertyName |-> "", typeOnly |-> FALSE]

ElAs(propertyName, name) == [name |-> name, propertyName |-> propertyName, typeOnly |-> FALSE]

ElType(name) == [name |-> name, propertyName |-> "", typeOnly |-> TRUE]

\* import 'm'
ImportSideEffect(m) == [Stmt EXCEPT !.s = "import", !.specifier = m]

\* import { ... } from 'm'  /  import type { ... } from 'm'
ImportNamed(m, typeOnly, elements) ==
    [Stmt EXCEPT !.s = "import", !.specifier = m, !.typeOnly = typeOnly,
                 !.bindings = "named", !.elements = elements]

\* import d from 'm'
ImportDefault(m, d) == [Stmt EXCEPT !.s = "import", !.specifier = m, !.default = d]

\* import * as ns from 'm'
ImportNamespace(m, ns) ==
    [Stmt EXCEPT !.s = "import", !.specifier = m, !.bindings = "namespace", !.ns = ns]

\* export { ... } from 'm'  /  export type { ... } from 'm'
ExportNamedFrom(m, typeOnly, elements) ==
    [Stmt EXCEPT !.s = "export", !.specifier = m, !.typeOnly = typeOnly,
                 !.bindings = "named", !.elements = elements]

\* export * from 'm'
ExportStarFrom(m) == [Stmt EXCEPT !.s = "export", !.specifier = m, !.bindings = "star"]

\* export * as ns from 'm'
ExportStarAsFrom(m, ns) ==
    [Stmt EXCEPT !.s = "export", !.specifier = m, !.bindings = "namespace", !.ns = ns]

\* export { ... }
ExportList(elements) ==
    [Stmt EXCEPT !.s = "export", !.bindings = "named", !.elements = elements]

\* export const name = ...  /  const name = ...
ExportDecl(name) == [Stmt EXCEPT !.s = "decl", !.name = name, !.exported = TRUE]

LocalDecl(name) == [Stmt EXCEPT !.s = "decl", !.name = name]

\* export default <expression>
ExportDefault == [Stmt EXCEPT !.s = "exportDefault"]

\* import x = require('m')
ImportEquals(m) == [Stmt EXCEPT !.s = "importEquals", !.specifier = m]

\* import('m') and require('m') inside `depth` enclosing functions.
DynamicImport(m) == [Stmt EXCEPT !.s = "import()", !.specifier = m]

Require(m, depth) == [Stmt EXCEPT !.s = "require()", !.specifier = m, !.depth = depth]

Text(size, doc, statements) == [size |-> size, doc |-> doc, statements |-> statements]

\* The texts of the model, by hash.
Content(hash) ==
    CASE hash = "a1" ->
            Text(40, << "a" >>,
                 << ImportNamed("./b", FALSE, << El("X") >>),
                    ImportNamed("pkg", FALSE, << El("A"), ElType("B") >>) >>)
      [] hash = "a2" ->
            Text(41, NoDesc,
                 << ImportNamespace("pkg", "Ns"),
                    ImportNamed("../shared/x", FALSE, << El("G") >>) >>)
      [] hash = "a3" ->
            Text(42, << " ", "a", "3" >>,
                 << ImportNamespace("./b", "Y"),
                    ImportNamed("./b", TRUE, << El("X") >>),
                    DynamicImport("./c") >>)
      [] hash = "b1" ->
            Text(30, NoDesc,
                 << ImportNamed("./c", FALSE, << El("Y") >>), ExportDecl("X") >>)
      [] hash = "b2" ->
            Text(31, << "b" >>,
                 << ExportStarFrom("./c"), ImportDefault("pkg", "P"), Require("fs", 1) >>)
      [] hash = "c1" ->
            Text(20, NoDesc,
                 << ExportDecl("X"), ExportDecl("Y"), ImportDefault("fs", "fs") >>)
      [] hash = "c2" ->
            Text(21, NoDesc, << ExportDecl("Y"), ImportSideEffect("./nope") >>)
      [] hash = "x1" -> Text(10, NoDesc, << ExportDecl("G") >>)
      [] hash = "p1" ->
            Text(50, NoDesc,
                 << ExportNamedFrom("./a", FALSE, << El("A") >>),
                    ExportNamedFrom("other", FALSE, << El("B") >>) >>)
      [] hash = "p2" ->
            Text(51, NoDesc,
                 << ExportNamedFrom("./a", FALSE, << El("A") >>),
                    ExportNamedFrom("other", FALSE, << El("B") >>),
                    ExportDefault >>)
      [] hash = "pa1" -> Text(11, NoDesc, << ExportDecl("A") >>)
      [] hash = "o1" -> Text(12, NoDesc, << ExportDecl("B") >>)
      [] hash = "ra1" ->
            Text(60, NoDesc,
                 << ExportNamedFrom("./b", FALSE, << El("X") >>),
                    ExportNamedFrom("./c", FALSE, << El("X") >>) >>)
      [] hash = "ra2" -> Text(61, NoDesc, << ExportStarFrom("./b"), ExportDecl("X") >>)
      [] hash = "ra3" ->
            Text(62, NoDesc,
                 << ExportNamedFrom("./b", FALSE, << ElAs("Y", "X") >>),
                    ExportStarAsFrom("./c", "Y") >>)
      [] hash = "ra4" ->
            Text(63, NoDesc,
                 << ImportNamed("./c", FALSE, << El("X") >>), ExportList(<< El("X") >>),
                    LocalDecl("Y"), ExportList(<< El("Y") >>) >>)
      [] hash = "rb1" -> Text(64, NoDesc, << ExportNamedFrom("./a", FALSE, << El("X") >>) >>)
      [] hash = "rb2" ->
            Text(65, NoDesc,
                 << ExportNamedFrom("./a", FALSE, << El("X") >>),
                    ExportNamedFrom("./c", FALSE, << El("X"), ElAs("X", "Y") >>) >>)
      [] hash = "rb3" -> Text(66, NoDesc, << ExportStarFrom("./c"), ExportDecl("Y") >>)
      [] hash = "rb4" ->
            Text(67, NoDesc,
                 << ImportNamespace("./a", "Ns"), ExportList(<< ElAs("Ns", "X") >>),
                    ExportNamedFrom("./c", FALSE, << El("Y") >>), ExportStarFrom("./c") >>)
      [] hash = "rc1" -> Text(68, NoDesc, << ExportDecl("X") >>)
      [] hash = "rc2" ->
            Text(69, NoDesc,
                 << ExportNamedFrom("./b", FALSE, << El("X") >>), ExportDecl("Y") >>)
      [] hash = "rc3" -> Text(70, NoDesc, << ExportStarFrom("./a"), ExportDecl("Y") >>)
      [] hash = "rc4" ->
            Text(71, NoDesc,
                 << ExportNamedFrom("./a", FALSE, << ElAs("X", "Y") >>),
                    ExportNamedFrom("./b", FALSE, << ElAs("Y", "X") >>) >>)
      [] OTHER -> Text(2, NoDesc, << >>)

\* The texts each file may hold.
TextMenu(file) ==
    CASE file = "a.ts" -> {"a1", "a2", "a3"}
      [] file = "b.ts" -> {"b1", "b2", Absent}
      [] file = "c.ts" -> {"c1", "c2"}
      [] file = "/shared/x.ts" -> {"x1", Absent}
      [] file = "node_modules/pkg/index.d.ts" -> {"p1", "p2"}
      [] file = "node_modules/pkg/a.d.ts" -> {"pa1"}
      [] file = "node_modules/other/index.d.ts" -> {"o1"}
      [] file = "package.json" -> {"j0", Absent}
      [] file = "node_modules/pkg/package.json" -> {"j1", Absent}
      [] file = "node_modules/other/package.json" -> {"j2", Absent}

AllFiles ==
    {"a.ts", "b.ts", "c.ts", "/shared/x.ts", "node_modules/pkg/index.d.ts",
     "node_modules/pkg/a.d.ts", "node_modules/other/index.d.ts", "package.json",
     "node_modules/pkg/package.json", "node_modules/other/package.json"}

Exists(files, file) == file \in AllFiles /\ files[file] # Absent

\* path.dirname, and the directories above a directory up to the root of
\* the volume.
Dirname(file) ==
    CASE file \in {"a.ts", "b.ts", "c.ts", "package.json"} -> "."
      [] file = "/shared/x.ts" -> "/shared"
      [] file \in {"node_modules/pkg/index.d.ts", "node_modules/pkg/a.d.ts",
                   "node_modules/pkg/package.json"} -> "node_modules/pkg"
      [] file \in {"node_modules/other/index.d.ts", "node_modules/other/package.json"}
            -> "node_modules/other"

\* The package.json a directory would hold, for the directories searched
\* from dir upwards that the model has a package.json for.
PackageJsonsAbove(dir) ==
    CASE dir = "node_modules/pkg" -> << "node_modules/pkg/package.json", "package.json" >>
      [] dir = "node_modules/other" -> << "node_modules/other/package.json", "package.json" >>
      [] dir = "." -> << "package.json" >>
      [] OTHER -> << >>

\* toPosixPath(absPath).includes('/node_modules/')
isNodeModulesPath(file) ==
    file \in {"node_modules/pkg/index.d.ts", "node_modules/pkg/a.d.ts",
              "node_modules/other/index.d.ts", "node_modules/pkg/package.json",
              "node_modules/other/package.json"}

\* absPathToNodeId(...).isOutsideRoot
IsOutsideRoot(file) == file = "/shared/x.ts"

\* isAnalyzableSource
isAnalyzableSource(id) == inferLanguageFromPath(id) \in {"ts", "js"}

\* makeHashedFileNode, for a file that exists.
makeHashedFileNode(files, file, kind) ==
    makeNode(file, kind, inferLanguageFromPath(file), NoDesc,
             makeMetadata(files[file], IF IsOutsideRoot(file) THEN "true" ELSE "false",
                          Content(files[file]).size))

-----------------------------------------------------------------------------
(* The TS/JS provider: extraction (providers/ts/extract.ts).               *)

\* isTypeOnlySpecifier
isTypeOnlySpecifier(el) == el.typeOnly

\* stmt.importClause is present
HasImportClause(stmt) == stmt.default # "" \/ stmt.bindings # "none"

\* every(...) over the elements of a named-imports block
AllTypeOnly(elements) == \A i \in 1..Len(elements) : isTypeOnlySpecifier(elements[i])

\* classifyImportDeclarationKind
classifyImportDeclarationKind(stmt) ==
    IF ~HasImportClause(stmt) THEN "runtime"
    ELSE IF stmt.typeOnly THEN "type"
    ELSE IF stmt.bindings = "named" /\ AllTypeOnly(stmt.elements) /\ stmt.default = ""
    THEN "type"
    ELSE "runtime"

ExplicitImport(specifier, kind, stmt) ==
    [specifier |-> specifier, kind |-> kind, stmt |-> stmt]

\* A tunnel request; exportName is the name the import asks the module for.
TunnelRequest(specifier, kind, exportName, stmt) ==
    [specifier |-> specifier, kind |-> kind, exportName |-> exportName, stmt |-> stmt]

\* The explicit imports statement i pushes in the loop over the statements.
StatementExplicit(stmt, i) ==
    IF stmt.s = "import"
    THEN << ExplicitImport(stmt.specifier, classifyImportDeclarationKind(stmt), i) >>
    ELSE IF stmt.s = "export" /\ stmt.specifier # ""
    THEN << ExplicitImport(stmt.specifier, IF stmt.typeOnly THEN "type" ELSE "runtime", i) >>
    ELSE IF stmt.s = "importEquals"
    THEN << ExplicitImport(stmt.specifier, "runtime", i) >>
    ELSE << >>

\* The tunnels of the named elements, then the tunnel of the default name.
NamedAndDefaultTunnels(stmt, i) ==
    LET kind == classifyImportDeclarationKind(stmt) IN
    (IF stmt.bindings = "named"
     THEN [j \in 1..Len(stmt.elements) |->
             TunnelRequest(stmt.specifier,
                           IF isTypeOnlySpecifier(stmt.elements[j]) THEN "type" ELSE kind,
                           IF stmt.elements[j].propertyName # ""
                           THEN stmt.elements[j].propertyName ELSE stmt.elements[j].name,
                           i)]
     ELSE << >>)
    \o (IF stmt.default # ""
        THEN << TunnelRequest(stmt.specifier, kind, "default", i) >> ELSE << >>)

\* A bug: the namespace binding is tunneled like an imported name.
StatementTunnels_NamespaceAsName(stmt, i) ==
    IF stmt.s # "import" \/ ~HasImportClause(stmt) THEN << >>
    ELSE IF stmt.bindings = "namespace"
    THEN << TunnelRequest(stmt.specifier, classifyImportDeclarationKind(stmt), stmt.ns, i) >>
    ELSE NamedAndDefaultTunnels(stmt, i)

\* The tunnel requests statement i pushes: none without a clause, none for
\* a namespace import.
StatementTunnels(stmt, i) ==
    IF stmt.s # "import" \/ ~HasImportClause(stmt) THEN << >>
    ELSE IF stmt.bindings = "namespace" THEN << >>
    ELSE NamedAndDefaultTunnels(stmt, i)

\* The explicit imports walk() pushes for import() and require() calls.
CallExplicit(stmt, i) ==
    IF stmt.s = "import()" THEN << ExplicitImport(stmt.specifier, "dynamic", i) >>
    ELSE IF stmt.s = "require()"
    THEN << ExplicitImport(stmt.specifier,
                           IF stmt.depth > 0 THEN "dynamic" ELSE "runtime", i) >>
    ELSE << >>

RECURSIVE Flatten(_)
Flatten(lists) ==
    CHOOSE r \in {
        IF seqs = << >> THEN << >> ELSE Head(seqs) \o Flatten(Tail(seqs))
        : seqs \in {lists}} : TRUE

\* extractFromSourceFile
extractFromSourceFile(statements) ==
    [explicit |->
        Flatten([i \in 1..Len(statements) |-> StatementExplicit(statements[i], i)])
        \o Flatten([i \in 1..Len(statements) |-> CallExplicit(statements[i], i)]),
     tunnels |->
        Flatten([i \in 1..Len(statements) |-> StatementTunnels(statements[i], i)])]

-----------------------------------------------------------------------------
(* Module resolution (providers/ts/moduleResolution.ts).                   *)

\* isNodeBuiltin, on the specifiers of the model.
isNodeBuiltin(specifier) == specifier \in {"fs", "node:fs"}

\* toNodeBuiltinId
toNodeBuiltinId(specifier) == IF specifier = "node:fs" THEN specifier ELSE "node:fs"

NoFile == "<no file>"

\* The file ts.resolveModuleName looks for: a relative specifier next to the
\* importing file, a package name in node_modules.
ResolutionCandidate(from, specifier) ==
    CASE specifier \in {"pkg"} /\ Dirname(from) # "/shared" -> "node_modules/pkg/index.d.ts"
      [] specifier \in {"other"} /\ Dirname(from) # "/shared" -> "node_modules/other/index.d.ts"
      [] specifier = "./a" /\ Dirname(from) = "." -> "a.ts"
      [] specifier = "./b" /\ Dirname(from) = "." -> "b.ts"
      [] specifier = "./c" /\ Dirname(from) = "." -> "c.ts"
      [] specifier = "../shared/x" /\ Dirname(from) = "." -> "/shared/x.ts"
      [] specifier = "./a" /\ Dirname(from) = "node_modules/pkg" -> "node_modules/pkg/a.d.ts"
      [] OTHER -> NoFile

\* resolveModuleSpecifier
resolveModuleSpecifier(files, from, specifier) ==
    IF isNodeBuiltin(specifier)
    THEN [kind |-> "builtin", id |-> toNodeBuiltinId(specifier),
          isExternalLibraryImport |-> FALSE]
    ELSE LET file == ResolutionCandidate(from, specifier) IN
         IF file = NoFile \/ ~Exists(files, file)
         THEN [kind |-> "missing", id |-> specifier, isExternalLibraryImport |-> FALSE]
         ELSE [kind |-> "file", id |-> file,
               isExternalLibraryImport |-> specifier \in {"pkg", "other"}]

-----------------------------------------------------------------------------
(* Re-export traversal (providers/ts/reexportTraversal.ts).                *)

\* collectLocalTopLevelDeclarationNames
collectLocalTopLevelDeclarationNames(statements) ==
    {statements[i].name : i \in {j \in 1..Len(statements) : statements[j].s = "decl"}}

\* collectImportBindings: local name -> where it was imported from.
collectImportBindings(statements) ==
    UNION {
        LET st == statements[i] IN
        IF st.s # "import" THEN {}
        ELSE (IF st.default # ""
              THEN {[local |-> st.default, kind |-> "default",
                     specifier |-> st.specifier, importName |-> "default"]} ELSE {})
             \cup (IF st.bindings = "namespace"
                   THEN {[local |-> st.ns, kind |-> "namespace",
                          specifier |-> st.specifier, importName |-> ""]} ELSE {})
             \cup (IF st.bindings = "named"
                   THEN {[local |-> st.elements[j].name, kind |-> "named",
                          specifier |-> st.specifier,
                          importName |-> IF st.elements[j].propertyName # ""
                                         THEN st.elements[j].propertyName
                                         ELSE st.elements[j].name] :
                            j \in 1..Len(st.elements)}
                   ELSE {})
        : i \in 1..Len(statements)}

\* The local side of `export { propertyName as name }`.
LocalSide(el) == IF el.propertyName # "" THEN el.propertyName ELSE el.name

\* sourceFileDefinesExportName
sourceFileDefinesExportName(statements, exportName, localNames) ==
    IF exportName = "default"
    THEN \E i \in 1..Len(statements) : statements[i].s = "exportDefault"
    ELSE \E i \in 1..Len(statements) :
            LET st == statements[i] IN
            \/ st.s = "decl" /\ st.exported /\ st.name = exportName
            \/ /\ st.s = "export" /\ st.specifier = "" /\ st.bindings = "named"
               /\ \E j \in 1..Len(st.elements) :
                     /\ st.elements[j].name = exportName
                     /\ LocalSide(st.elements[j]) \in localNames

SymbolTarget(specifier, importName) ==
    [kind |-> "symbol", specifier |-> specifier, importName |-> importName]

ModuleTarget(specifier) == [kind |-> "module", specifier |-> specifier, importName |-> ""]

\* The forwarding targets one statement gives for exportName.
StatementForwarding(st, exportName, localNames, imports) ==
    IF st.s # "export" THEN << >>
    ELSE IF st.specifier # ""
    THEN IF st.bindings = "star" THEN << SymbolTarget(st.specifier, exportName) >>
         ELSE IF st.bindings = "namespace"
         THEN IF st.ns = exportName THEN << ModuleTarget(st.specifier) >> ELSE << >>
         ELSE Flatten([j \in 1..Len(st.elements) |->
                         IF st.elements[j].name = exportName
                         THEN << SymbolTarget(st.specifier, LocalSide(st.elements[j])) >>
                         ELSE << >>])
    ELSE Flatten([j \in 1..Len(st.elements) |->
                    LET el == st.elements[j]
                        bound == {b \in imports : b.local = LocalSide(el)}
                    IN  IF el.name # exportName \/ LocalSide(el) \in localNames \/ bound = {}
                        THEN << >>
                        ELSE LET b == CHOOSE x \in bound : TRUE IN
                             IF b.kind = "namespace" THEN << ModuleTarget(b.specifier) >>
                             ELSE << SymbolTarget(b.specifier, b.importName) >>])

\* collectForwardingTargetsForName
collectForwardingTargetsForName(statements, exportName, localNames, imports) ==
    Flatten([i \in 1..Len(statements) |->
                StatementForwarding(statements[i], exportName, localNames, imports)])

SymbolExport(file, exportName) == [kind |-> "symbol", absPath |-> file, exportName |-> exportName]

ModuleExport(file) == [kind |-> "module", absPath |-> file, exportName |-> ""]

\* uniqByKey: first occurrences, in order.
uniqByKey(items) == uniq(items)

\* cache.memo.set(key, value)
MemoSet(memo, key, value) ==
    [k \in DOMAIN memo \cup {key} |-> IF k = key THEN value ELSE memo[k]]

\* The defining export a module contributes itself.
OwnExport(file, statements, exportName) ==
    IF sourceFileDefinesExportName(statements, exportName,
                                   collectLocalTopLevelDeclarationNames(statements))
    THEN << SymbolExport(file, exportName) >> ELSE << >>

ForwardingTargets(statements, exportName) ==
    collectForwardingTargetsForName(statements, exportName,
                                    collectLocalTopLevelDeclarationNames(statements),
                                    collectImportBindings(statements))

\* visit, and the loop over the forwarding targets inside it.  Both give
\* the defining exports found and the memo as it is afterwards.
RECURSIVE visit(_, _, _, _, _)
RECURSIVE VisitTargets(_, _, _, _, _)
RECURSIVE FollowTarget(_, _, _, _, _)
visit(files, file, exportName, stack, memoIn) ==
    CHOOSE v \in {
        IF << file, exportName >> \in DOMAIN memo
        THEN [out |-> memo[<< file, exportName >>], memo |-> memo]
        ELSE IF << file, exportName >> \in stack THEN [out |-> << >>, memo |-> memo]
        ELSE CHOOSE done \in {
                [out |-> uniqByKey(r.out),
                 memo |-> MemoSet(r.memo, << file, exportName >>, uniqByKey(r.out))]
                : r \in {VisitTargets(
                            files, file,
                            ForwardingTargets(Content(files[file]).statements, exportName),
                            stack \cup {<< file, exportName >>},
                            [out |-> OwnExport(file, Content(files[file]).statements,
                                               exportName),
                             memo |-> memo])}} : TRUE
        : memo \in {memoIn}} : TRUE

VisitTargets(files, file, targetsIn, stack, accIn) ==
    CHOOSE v \in {
        IF targets = << >> THEN acc
        ELSE VisitTargets(files, file, Tail(targets), stack,
                          FollowTarget(files, file, Head(targets), stack, acc))
        : targets \in {targetsIn}, acc \in {accIn}} : TRUE

\* One forwarding target, a module-level target being skipped.
FollowTarget_SkipsModules(files, file, t, stack, acc) ==
    CHOOSE v \in {
        IF r.kind # "file" \/ t.kind = "module" THEN acc
        ELSE CHOOSE j \in {
                [out |-> acc.out \o w.out, memo |-> w.memo]
                : w \in {visit(files, r.id, t.importName, stack, acc.memo)}} : TRUE
        : r \in {resolveModuleSpecifier(files, file, t.specifier)}} : TRUE

\* One forwarding target: skipped when it does not resolve to a file, a
\* module-level target is its file, a symbol is followed into the file.
FollowTarget(files, file, t, stack, acc) ==
    CHOOSE v \in {
        IF r.kind # "file" THEN acc
        ELSE IF t.kind = "module"
        THEN [acc EXCEPT !.out = Append(acc.out, ModuleExport(r.id))]
        ELSE CHOOSE j \in {
                [out |-> acc.out \o w.out, memo |-> w.memo]
                : w \in {visit(files, r.id, t.importName, stack, acc.memo)}} : TRUE
        : r \in {resolveModuleSpecifier(files, file, t.specifier)}} : TRUE

\* resolveDefiningExportsForName, with a cache of its own.
resolveDefiningExportsForName(files, entryFile, exportName) ==
    visit(files, entryFile, exportName, {}, << >>).out

-----------------------------------------------------------------------------
(* Tunnel expansion and the commander rule (providers/ts/tunnel.ts).       *)

NoRoot == "<null>"

\* packageDirectorySync({ cwd: dir }): the nearest directory, from dir
\* upwards, that holds a package.json.
RECURSIVE FirstExisting(_, _)
FirstExisting(files, candidates) ==
    IF candidates = << >> THEN NoRoot
    ELSE IF Exists(files, Head(candidates)) THEN Dirname(Head(candidates))
    ELSE FirstExisting(files, Tail(candidates))

packageDirectorySync(files, dir) == FirstExisting(files, PackageJsonsAbove(dir))

\* findNearestPackageRoot, with the module-level packageRootCache it reads
\* and fills.
findNearestPackageRoot(files, cache, file) ==
    LET start == Dirname(file) IN
    IF start \in DOMAIN cache
    THEN [root |-> cache[start], cache |-> cache]
    ELSE [root |-> packageDirectorySync(files, start),
          cache |-> MemoSet(cache, start, packageDirectorySync(files, start))]

\* declarationAbsPaths.filter(...) of filterCommanderRule
RECURSIVE FilterByRoot(_, _, _, _)
FilterByRoot(files, decls, barrelRoot, accIn) ==
    CHOOSE r \in {
        IF decls = << >> THEN acc
        ELSE FilterByRoot(files, Tail(decls), barrelRoot,
                CHOOSE k \in {
                    [out |-> IF d.root # NoRoot /\ d.root = barrelRoot
                             THEN Append(acc.out, Head(decls)) ELSE acc.out,
                     cache |-> d.cache]
                    : d \in {findNearestPackageRoot(files, acc.cache, Head(decls))}} : TRUE)
        : acc \in {accIn}} : TRUE

\* filterCommanderRule
filterCommanderRule(files, cache, barrelAbsPath, declarationAbsPaths) ==
    CHOOSE r \in {
        IF b.root = NoRoot
        THEN [out |-> declarationAbsPaths, cache |-> b.cache]
        ELSE FilterByRoot(files, declarationAbsPaths, b.root,
                          [out |-> << >>, cache |-> b.cache])
        : b \in {findNearestPackageRoot(files, cache, barrelAbsPath)}} : TRUE

\* getDeclarationFilesForBarrelExportNames: the files of the defining
\* exports of each name; a module-level target is its file, a symbol is the
\* file that declares it.
getDeclarationFilesForBarrelExportNames(files, barrel, exportNames) ==
    uniq(Flatten([i \in 1..Len(exportNames) |->
            LET defs == resolveDefiningExportsForName(files, barrel, exportNames[i])
            IN  [j \in 1..Len(defs) |-> defs[j].absPath]]))

-----------------------------------------------------------------------------
(* The analyzer (providers/ts/analyze.ts).                                 *)

\* rec[key] = val on an object: a new key goes last.
Put(rec, key, val) ==
    IF key \in Keys(rec)
    THEN [i \in 1..Len(rec) |-> IF rec[i].key = key THEN [key |-> key, val |-> val]
                                ELSE rec[i]]
    ELSE Append(rec, [key |-> key, val |-> val])

\* { ...a, ...b }
RECURSIVE Spread(_, _)
Spread(a, b) ==
    CHOOSE r \in {
        IF y = << >> THEN x ELSE Spread(Put(x, Head(y).key, Head(y).val), Tail(y))
        : x \in {a}, y \in {b}} : TRUE

ValueOf(rec, key) == rec[Get(rec, key)].val

Edge(target, kind, resolution) ==
    [target |-> target, kind |-> kind, resolution |-> resolution]

\* ensureNode
ensureNode(files, nodes, file, kindHint) ==
    IF /\ file \in Keys(nodes)
       /\ ValueOf(nodes, file).metadata.hash # NoHash
       /\ ValueOf(nodes, file).metadata.size # NoSize
    THEN nodes
    ELSE Put(nodes, file, makeHashedFileNode(files, file, kindHint))

\* ensureBuiltinNode
ensureBuiltinNode(nodes, id) ==
    IF id \in Keys(nodes) THEN nodes
    ELSE Put(nodes, id, makeNode(id, "builtin", "other", NoDesc, NoMeta))

\* ensureMissingNode making the node with the metadata of an empty file.
ensureMissingNode_Hashed(nodes, id) ==
    IF id \in Keys(nodes) THEN nodes
    ELSE Put(nodes, id, makeNode(id, "missing", "other", NoDesc,
                                 makeMetadata("empty", "false", 0)))

\* ensureMissingNode
ensureMissingNode(nodes, id) ==
    IF id \in Keys(nodes) THEN nodes
    ELSE Put(nodes, id, makeNode(id, "missing", "other", NoDesc, NoMeta))

\* hasOwn(nodes, id) && nodes[id].kind === 'source'
inUniverseAsSource(nodes, id) == id \in Keys(nodes) /\ ValueOf(nodes, id).kind = "source"

\* Where an emitted edge came from: the statement of the source, and for a
\* tunneled edge the barrel its import resolved to.
Origin(source, edge, stmt, barrel, barrelIsExternal) ==
    [source |-> source, edge |-> edge, stmt |-> stmt, barrel |-> barrel,
     barrelIsExternal |-> barrelIsExternal]

\* The loop over the explicit imports of one source.
RECURSIVE ExplicitLoop(_, _, _, _)
ExplicitLoop(files, sourceId, explicit, stIn) ==
    CHOOSE r \in {
        IF explicit = << >> THEN st
        ELSE ExplicitLoop(files, sourceId, Tail(explicit),
                [st EXCEPT
                    !.nodes =
                        IF resolved.kind = "builtin"
                        THEN ensureBuiltinNode(st.nodes, resolved.id)
                        ELSE IF resolved.kind = "missing"
                        THEN ensureMissingNode(st.nodes, resolved.id)
                        ELSE ensureNode(files, st.nodes, resolved.id,
                                IF \/ inUniverseAsSource(st.nodes, resolved.id)
                                   \/ (~resolved.isExternalLibraryImport
                                       /\ ~isNodeModulesPath(resolved.id))
                                THEN "source" ELSE "external"),
                    !.outEdges = Append(@, Edge(resolved.id, Head(explicit).kind, "explicit")),
                    !.origins =
                        Append(@, Origin(sourceId,
                                         Edge(resolved.id, Head(explicit).kind, "explicit"),
                                         Head(explicit).stmt, NoFile, FALSE))])
        : st \in {stIn},
          resolved \in {IF explicit = << >> THEN NoFile
                        ELSE resolveModuleSpecifier(files, sourceId,
                                                    Head(explicit).specifier)}} : TRUE

\* The loop over the declaration files one tunnel request expands to.
RECURSIVE DeclLoop(_, _, _, _, _, _)
DeclLoop(files, sourceId, t, resolved, decls, stIn) ==
    CHOOSE r \in {
        IF decls = << >> THEN st
        ELSE DeclLoop(files, sourceId, t, resolved, Tail(decls),
                [st EXCEPT
                    !.nodes =
                        ensureNode(files, st.nodes, Head(decls),
                            IF \/ inUniverseAsSource(st.nodes, Head(decls))
                               \/ (~isNodeModulesPath(Head(decls))
                                   /\ ~resolved.isExternalLibraryImport)
                            THEN "source" ELSE "external"),
                    !.outEdges = Append(@, Edge(Head(decls), t.kind, "implicit")),
                    !.origins =
                        Append(@, Origin(sourceId, Edge(Head(decls), t.kind, "implicit"),
                                         t.stmt, resolved.id,
                                         resolved.isExternalLibraryImport
                                         \/ isNodeModulesPath(resolved.id)))])
        : st \in {stIn}} : TRUE

\* One tunnel request: resolve the barrel, expand the name to its
\* declaration files, apply the commander rule to an external barrel, emit.
EmitTunnel(files, sourceId, t, resolved, declsIn, st) ==
    CHOOSE r \in {
        DeclLoop(files, sourceId, t, resolved, filtered.out,
                 [st EXCEPT !.cache = filtered.cache])
        : filtered \in {
            IF resolved.isExternalLibraryImport \/ isNodeModulesPath(resolved.id)
            THEN filterCommanderRule(files, st.cache, resolved.id, declsIn)
            ELSE [out |-> declsIn, cache |-> st.cache]}} : TRUE

ExpandTunnel(files, sourceId, t, st) ==
    CHOOSE r \in {
        IF resolved.kind # "file" THEN st
        ELSE EmitTunnel(files, sourceId, t, resolved,
                        getDeclarationFilesForBarrelExportNames(
                            files, resolved.id, << t.exportName >>),
                        st)
        : resolved \in {resolveModuleSpecifier(files, sourceId, t.specifier)}} : TRUE

\* The loop over the tunnel requests of one source.
RECURSIVE TunnelLoop(_, _, _, _)
TunnelLoop(files, sourceId, tunnels, stIn) ==
    CHOOSE r \in {
        IF tunnels = << >> THEN st
        ELSE TunnelLoop(files, sourceId, Tail(tunnels),
                        ExpandTunnel(files, sourceId, Head(tunnels), st))
        : st \in {stIn}} : TRUE

\* One dirty source: its explicit edges, then its tunneled edges, recorded
\* as edgesBySource[sourceId].
AnalyzeSource(files, sourceId, st) ==
    CHOOSE r \in {
        [x EXCEPT !.edgesBySource = Put(@, sourceId, x.outEdges), !.outEdges = << >>]
        : x \in {CHOOSE y \in {
                    TunnelLoop(files, sourceId, ex.tunnels,
                               ExplicitLoop(files, sourceId, ex.explicit, st))
                    : ex \in {extractFromSourceFile(Content(files[sourceId]).statements)}}
                    : TRUE}} : TRUE

\* The loop over the dirty sources.
RECURSIVE SourceLoop(_, _, _)
SourceLoop(files, dirty, stIn) ==
    CHOOSE r \in {
        IF dirty = << >> THEN st
        ELSE IF ~Exists(files, Head(dirty)) THEN SourceLoop(files, Tail(dirty), st)
        ELSE SourceLoop(files, Tail(dirty), AnalyzeSource(files, Head(dirty), st))
        : st \in {stIn}} : TRUE

\* analyzeTypeScript: the nodes, the edges of every dirty source, the
\* origins of those edges and the package root cache afterwards.
analyzeTypeScript(files, cache, dirtySourceIds, baseNodes) ==
    SourceLoop(files, dirtySourceIds,
               [nodes |-> baseNodes, edgesBySource |-> << >>, errors |-> << >>,
                cache |-> cache, outEdges |-> << >>, origins |-> << >>])

-----------------------------------------------------------------------------
(* Incremental planning (core/incremental.ts).                             *)

\* buildReverseDeps: target -> the sources with an edge to it, in the order
\* they were first seen.
RECURSIVE AddReverse(_, _, _)
AddReverse(revIn, src, outs) ==
    CHOOSE r \in {
        IF outs = << >> THEN rev
        ELSE AddReverse(Put(rev, Head(outs).target,
                            uniq(Append(IF Head(outs).target \in Keys(rev)
                                        THEN ValueOf(rev, Head(outs).target) ELSE << >>,
                                        src))),
                        src, Tail(outs))
        : rev \in {revIn}} : TRUE

RECURSIVE ReverseOver(_, _)
ReverseOver(edges, revIn) ==
    CHOOSE r \in {
        IF edges = << >> THEN rev
        ELSE ReverseOver(Tail(edges), AddReverse(rev, Head(edges).key, Head(edges).val))
        : rev \in {revIn}} : TRUE

buildReverseDeps(edges) == ReverseOver(edges, << >>)

\* rev.get(id), or nothing
Dependents(rev, id) == IF id \in Keys(rev) THEN ValueOf(rev, id) ELSE << >>

\* The ids of s not yet in out, in order.
Unseen(s, out) == SelectSeq(uniq(s), LAMBDA id : id \notin Range(out))

\* transitiveReverseClosure: the while loop over the queue.
RECURSIVE DrainReverse(_, _)
DrainReverse(rev, stIn) ==
    CHOOSE r \in {
        IF st.queue = << >> THEN st.out
        ELSE CHOOSE d \in {
                DrainReverse(rev, [out |-> st.out \o new, queue |-> Tail(st.queue) \o new])
                : new \in {Unseen(Dependents(rev, Head(st.queue)), st.out)}} : TRUE
        : st \in {stIn}} : TRUE

\* A bug: the closure stops at the direct dependents of the start nodes.
transitiveReverseClosure_DirectOnly(start, rev) ==
    uniq(uniq(start) \o Flatten([i \in 1..Len(start) |-> Dependents(rev, start[i])]))

transitiveReverseClosure(start, rev) ==
    CHOOSE c \in {
        DrainReverse(r, [out |-> uniq(start), queue |-> uniq(start)])
        : r \in {rev}} : TRUE

\* isHashComparable
isHashComparable(n) == n.kind \in {"source", "external"} /\ n.metadata.hash # NoHash

\* tryHashFileSha256: the hash of the file now, nothing when it cannot be
\* read.
tryHashFileSha256(files, id) == IF Exists(files, id) THEN files[id] ELSE NoHash

\* nodeIdToAbsPath(cwd, id) is null
IsBuiltinId(id) == id \in {"node:fs"}

\* prev.nodes[id]?.metadata?.hash
PrevHash(prev, id) ==
    IF id \in Keys(prev.nodes) THEN NodeOf(prev, id).metadata.hash ELSE NoHash

\* The changed node ids without step (3), the re-hash of the previous nodes.
ChangedNodeIds_NoRehash(files, currentNodes, prev) ==
    uniq(
        SelectSeq(KeySeq(currentNodes),
                  LAMBDA id : /\ isHashComparable(ValueOf(currentNodes, id))
                              /\ PrevHash(prev, id) # ValueOf(currentNodes, id).metadata.hash)
        \o SelectSeq(KeySeq(prev.nodes),
                  LAMBDA id : /\ NodeOf(prev, id).kind = "source"
                              /\ id \notin Keys(currentNodes)))

\* Steps (1) to (3) of planIncremental: the changed node ids.
ChangedNodeIds(files, currentNodes, prev) ==
    uniq(
        SelectSeq(KeySeq(currentNodes),
                  LAMBDA id : /\ isHashComparable(ValueOf(currentNodes, id))
                              /\ PrevHash(prev, id) # ValueOf(currentNodes, id).metadata.hash)
        \o SelectSeq(KeySeq(prev.nodes),
                  LAMBDA id : /\ NodeOf(prev, id).kind = "source"
                              /\ id \notin Keys(currentNodes))
        \o SelectSeq(KeySeq(prev.nodes),
                  LAMBDA id : /\ isHashComparable(NodeOf(prev, id))
                              /\ ~IsBuiltinId(id)
                              /\ tryHashFileSha256(files, id) # NoHash
                              /\ tryHashFileSha256(files, id) # NodeOf(prev, id).metadata.hash))

\* Step (5) skipping every source, as if all were dirty.
ReusedEdges_Nothing(ids, dirty, prev) == << >>

\* Step (5): the previous edge lists of the clean analyzable sources.
RECURSIVE ReusedEdges(_, _, _)
ReusedEdges(ids, dirty, prev) ==
    IF ids = << >> THEN << >>
    ELSE (IF Head(ids) \notin Range(dirty) /\ Head(ids) \in Keys(prev.edges)
          THEN << [key |-> Head(ids), val |-> ValueOf(prev.edges, Head(ids))] >>
          ELSE << >>)
         \o ReusedEdges(Tail(ids), dirty, prev)

\* Step (6): the ids the reused edge lists refer to.
Referenced(reused) ==
    uniq(Flatten([i \in 1..Len(reused) |->
            << reused[i].key >>
            \o [j \in 1..Len(reused[i].val) |-> reused[i].val[j].target]]))

\* Step (6) carrying nothing over.
CarriedNodes_Nothing(reused, currentNodes, prev) == << >>

\* Step (6): the previous nodes of the referenced ids that are no current
\* node.
CarriedNodes(reused, currentNodes, prev) ==
    LET ids == SelectSeq(Referenced(reused),
                         LAMBDA id : id \notin Keys(currentNodes) /\ id \in Keys(prev.nodes))
    IN  [i \in 1..Len(ids) |-> [key |-> ids[i], val |-> NodeOf(prev, ids[i])]]

\* planIncremental
planIncremental(files, analyzableSourceIds, currentNodes, previousGraph) ==
    IF previousGraph.none
    THEN [dirtySourceIds |-> analyzableSourceIds, reusedEdgesBySource |-> << >>,
          carriedNodes |-> << >>, changedNodeIds |-> analyzableSourceIds]
    ELSE CHOOSE plan \in {
            CHOOSE p \in {
                CHOOSE q \in {
                    [dirtySourceIds |-> dirty,
                     reusedEdgesBySource |-> reused,
                     carriedNodes |-> CarriedNodes(reused, currentNodes, previousGraph),
                     changedNodeIds |-> changed]
                    : reused \in {ReusedEdges(analyzableSourceIds, dirty, previousGraph)}}
                    : TRUE
                : dirty \in {SelectSeq(transitiveReverseClosure(
                                          changed, buildReverseDeps(previousGraph.edges)),
                                       LAMBDA id : id \in Range(analyzableSourceIds))}}
                : TRUE
            : changed \in {ChangedNodeIds(files, currentNodes, previousGraph)}} : TRUE

-----------------------------------------------------------------------------
(* The driver (generateDependencyGraph.ts) and what it calls in core/.     *)

DEFAULT_MAX_ERRORS == 50

\* scanUniverseFiles, without .gitignore and without a config: the files
\* under cwd outside node_modules, sorted.
scanUniverseFiles(files) ==
    SelectSeq(<< "a.ts", "b.ts", "c.ts", "package.json" >>, LAMBDA f : Exists(files, f))

\* describeTsJsModule: the prose of the module docblock, whitespace
\* normalised, or nothing.
describeTsJsModule(text) ==
    IF text.doc = NoDesc \/ Trim(text.doc) = << >> THEN NoDesc ELSE Trim(text.doc)

\* isDescribableNode
isDescribableNode(n) == n.kind \in {"source", "external"} /\ n.language \in {"ts", "js"}

\* applyNodeDescriptions
applyNodeDescriptions(files, nodes) ==
    CHOOSE described \in {
        [i \in 1..Len(out) |->
            IF \/ ~isDescribableNode(out[i].val)
               \/ IsBuiltinId(out[i].key)
               \/ ~Exists(files, out[i].key)
            THEN out[i]
            ELSE [key |-> out[i].key,
                  val |-> [out[i].val EXCEPT
                             !.description =
                                describeTsJsModule(Content(files[out[i].key]))]]]
        : out \in {nodes}} : TRUE

SizeWarning(id) ==
    [msg |-> "warning: metadata.size missing for hashed node", id |-> id]

NoFailure == [msg |-> "", count |-> 0, preview |-> << >>, ellipsis |-> FALSE]

\* The Error with every offender in the preview.
SizeFailure_WholeList(ids) ==
    [msg |-> "metadata.size missing for hashed nodes", count |-> Len(ids),
     preview |-> ids, ellipsis |-> Len(ids) > 10]

\* The Error validateHashSizeInvariant throws: the count, the preview
\* ids.slice(0, 10) and whether ' ...' follows.
SizeFailure(ids) ==
    [msg |-> "metadata.size missing for hashed nodes", count |-> Len(ids),
     preview |-> SubSeq(ids, 1, IF Len(ids) < 10 THEN Len(ids) ELSE 10),
     ellipsis |-> Len(ids) > 10]

\* The offenders among the source nodes only.
Offenders_SourcesOnly(graph) ==
    SortIds({graph.nodes[i].key :
                i \in {j \in 1..Len(graph.nodes) :
                         /\ graph.nodes[j].val.kind = "source"
                         /\ graph.nodes[j].val.metadata.hash # NoHash
                         /\ graph.nodes[j].val.metadata.size = NoSize}})

\* The sorted offenders of validateHashSizeInvariant.
Offenders(graph) ==
    SortIds({graph.nodes[i].key :
                i \in {j \in 1..Len(graph.nodes) :
                         /\ isHashComparable(graph.nodes[j].val)
                         /\ graph.nodes[j].val.metadata.size = NoSize}})

\* What validateHashSizeInvariant does with the offenders under a mode.
Enforce(ids, enforcement) ==
    IF enforcement = "ignore" \/ ids = << >>
    THEN [threw |-> FALSE, failure |-> NoFailure, warnings |-> << >>]
    ELSE IF enforcement = "error"
    THEN [threw |-> TRUE, failure |-> SizeFailure(ids), warnings |-> << >>]
    ELSE [threw |-> FALSE, failure |-> NoFailure,
          warnings |-> [i \in 1..Len(ids) |-> SizeWarning(ids[i])]]

\* validateHashSizeInvariant({ graph, mode }): the warnings it returns, or
\* the Error it throws.
validateHashSizeInvariant(graph, enforcement) ==
    CHOOSE r \in {Enforce(ids, enforcement) : ids \in {Offenders(graph)}} : TRUE

\* A JavaScript number as capErrors sees it: not finite (NaN, Infinity), or
\* finite with the value twice / 2, so that halves can be told from integers.
NotFinite == [finite |-> FALSE, twice |-> 0]

Halves(n) == [finite |-> TRUE, twice |-> n]

Number(n) == Halves(n + n)

\* `errors truncated: <total> total`
TruncatedTotal(total) == [msg |-> "errors truncated: total", id |-> "", total |-> total]

\* `errors truncated: showing <shown> of <total>`
TruncatedShowing(shown, total) ==
    [msg |-> "errors truncated: showing of", id |-> "", shown |-> shown, total |-> total]

\* Math.max(0, Math.floor(maxErrors))
FlooredCap(maxErrors) ==
    IF maxErrors.twice \div 2 < 0 THEN 0 ELSE maxErrors.twice \div 2

\* capErrors keeping `max` entries before the sentinel.
capErrors_SentinelExtra(errors, maxErrors) ==
    IF ~maxErrors.finite THEN errors
    ELSE IF FlooredCap(maxErrors) = 0 THEN << >>
    ELSE IF Len(errors) <= FlooredCap(maxErrors) THEN errors
    ELSE Append(SubSeq(errors, 1, FlooredCap(maxErrors)),
                TruncatedShowing(FlooredCap(maxErrors), Len(errors)))

\* capErrors
capErrors(errors, maxErrors) ==
    IF ~maxErrors.finite THEN errors
    ELSE IF FlooredCap(maxErrors) = 0 THEN << >>
    ELSE IF Len(errors) <= FlooredCap(maxErrors) THEN errors
    ELSE IF FlooredCap(maxErrors) = 1 THEN << TruncatedTotal(Len(errors)) >>
    ELSE Append(SubSeq(errors, 1, FlooredCap(maxErrors) - 1),
                TruncatedShowing(FlooredCap(maxErrors) - 1, Len(errors)))

RECURSIVE CountEdges(_)
CountEdges(edges) ==
    IF edges = << >> THEN 0 ELSE Len(Head(edges).val) + CountEdges(Tail(edges))

TypeScriptMissing ==
    [msg |-> "typescript peer dependency not found; returning nodes-only graph", id |-> ""]

\* The GraphResult, with the plan, the graph handed to the finalizer, the
\* origins of the edges analysed in this call and the package root cache
\* afterwards.
Validated(inc, raw, graph, errors, analyzedErrors, origins, cache, enforcement) ==
    CHOOSE result \in {
        [threw |-> check.threw, failure |-> check.failure,
         graph |-> graph,
         stats |-> [modules |-> Len(graph.nodes), edges |-> CountEdges(graph.edges),
                    dirty |-> Len(inc.dirtySourceIds)],
         uncapped |-> errors \o check.warnings \o analyzedErrors,
         errors |-> capErrors(errors \o check.warnings \o analyzedErrors,
                              Number(DEFAULT_MAX_ERRORS)),
         plan |-> inc, raw |-> raw, origins |-> origins, cache |-> cache]
        : check \in {validateHashSizeInvariant(graph, enforcement)}} : TRUE

GraphResult(inc, rawIn, errors, analyzedErrors, origins, cache, enforcement) ==
    CHOOSE result \in {
        Validated(inc, raw, graph, errors, analyzedErrors, origins, cache, enforcement)
        : raw \in {rawIn}, graph \in {finalizeGraph(rawIn)}} : TRUE

\* generateDependencyGraph from the plan on: the nodes-only graph when
\* TypeScript cannot be loaded, the analysed graph otherwise.
ResultFromAnalysis(files, inc, analyzedIn, enforcement) ==
    CHOOSE result \in {
        GraphResult(inc,
                    Graph(applyNodeDescriptions(files, analyzed.nodes),
                          Spread(inc.reusedEdgesBySource, analyzed.edgesBySource)),
                    << >>, analyzed.errors, Range(analyzed.origins), analyzed.cache,
                    enforcement)
        : analyzed \in {analyzedIn}} : TRUE

ResultFromPlan(files, cache, ts, currentNodes, plan, enforcement) ==
    CHOOSE result \in {
        IF ~ts
        THEN GraphResult(inc,
                         Graph(applyNodeDescriptions(files, baseNodes),
                               inc.reusedEdgesBySource),
                         << TypeScriptMissing >>, << >>, {}, cache, enforcement)
        ELSE ResultFromAnalysis(files, inc,
                analyzeTypeScript(files, cache, inc.dirtySourceIds, baseNodes), enforcement)
        : inc \in {plan}, baseNodes \in {Spread(plan.carriedNodes, currentNodes)}} : TRUE

\* opts.hashSizeEnforcement ?? DEFAULT_HASH_SIZE_ENFORCEMENT
EnforcementOf(hashSizeEnforcement) ==
    IF hashSizeEnforcement = "undefined" THEN DEFAULT_HASH_SIZE_ENFORCEMENT
    ELSE hashSizeEnforcement

\* generateDependencyGraph
generateDependencyGraph(files, cache, ts, previousGraph, hashSizeEnforcement) ==
    CHOOSE result \in {
        ResultFromPlan(files, cache, ts, currentNodes,
                       planIncremental(files,
                                       SelectSeq(scanUniverseFiles(files), isAnalyzableSource),
                                       currentNodes, previousGraph),
                       EnforcementOf(hashSizeEnforcement))
        : currentNodes \in {
            [i \in 1..Len(scanUniverseFiles(files)) |->
                [key |-> scanUniverseFiles(files)[i],
                 val |-> makeHashedFileNode(files, scanUniverseFiles(files)[i], "source")]]}}
        : TRUE

\* No file system and no call: the build variables outside the build
\* specification.
NoFiles == [f \in AllFiles |-> Absent]

NoBuilt ==
    [none |-> TRUE, graph |-> NoGraph, stats |-> [modules |-> 0, edges |-> 0, dirty |-> 0],
     errors |-> << >>, plan |-> planIncremental(NoFiles, << >>, << >>, NoGraph),
     raw |-> NoGraph, origins |-> {}, previousGraph |-> NoGraph,
     files |-> NoFiles, previousFiles |-> NoFiles,
     threw |-> FALSE, failure |-> NoFailure, uncapped |-> << >>,
     hashSizeEnforcement |-> "undefined", previous |-> "none", cacheBefore |-> << >>]

BuildIdle ==
    /\ fs = NoFiles
    /\ tsAvailable = FALSE
    /\ packageRootCache = << >>
    /\ built = NoBuilt
    /\ edits = 0
    /\ builds = 0

-----------------------------------------------------------------------------
(* The universe scanner (core/universe.ts).  A path is the sequence of its *)
(* '/'-separated segments, and so is a glob; a pattern list is kept as the *)
(* set of its globs, since a path matches the list when it matches any.    *)

\* The files on disk under cwd, in the order localeCompare gives them.
ScanOrder ==
    << << ".git", "config" >>, << "ignored.txt" >>, << "kept.txt" >>,
       << "node_modules", "pkg", "index.d.ts" >>, << "src", "a.ts" >> >>

ScanPaths == Range(ScanOrder)

\* One segment of a glob against one segment of a path (dot: true).
SegMatch(ps, seg) ==
    \/ ps = "*"
    \/ ps = seg
    \/ ps = "*.txt" /\ seg \in {"ignored.txt", "kept.txt"}

\* picomatch / fast-glob matching of one glob against a whole path.
RECURSIVE GlobMatch(_, _)
GlobMatch(pat, path) ==
    IF pat = << >> THEN path = << >>
    ELSE IF Head(pat) = "**"
    THEN IF Len(pat) = 1 THEN TRUE
         ELSE GlobMatch(Tail(pat), path)
              \/ (path # << >> /\ GlobMatch(pat, Tail(path)))
    ELSE /\ path # << >>
         /\ SegMatch(Head(pat), Head(path))
         /\ GlobMatch(Tail(pat), Tail(path))

\* makeGlobMatcher(patterns)(p): empty patterns are filtered out, and no
\* pattern matches nothing.
makeGlobMatcher(patterns, path) ==
    \E g \in {q \in patterns : q # << >>} : GlobMatch(g, path)

\* ig.ignores(p) for the lines of the root .gitignore: a line without a
\* slash matches a file or directory of that name at any depth, a line
\* with one is matched from the root.
ignores(lines, path) ==
    \E l \in lines :
        IF Len(l) = 1 THEN \E i \in 1..Len(path) : SegMatch(l[1], path[i])
        ELSE GlobMatch(l, path)

\* fg(globs, { ignore }): the files on disk a glob matches and no ignore
\* glob does.
fg(disk, globs, ignored) ==
    {f \in disk : /\ \E g \in globs : GlobMatch(g, f)
                  /\ ~\E g \in ignored : GlobMatch(g, f)}

\* uniqSorted
uniqSorted(paths) == SelectSeq(ScanOrder, LAMBDA f : f \in paths)

\* The candidates of scanUniverseFiles: the base enumeration and the files
\* of the include globs other than `**/*`.
ScanCandidates(disk, includes) ==
    fg(disk, {<< "**", "*" >>}, {<< ".git", "**" >>, << "node_modules", "**" >>})
        \cup fg(disk, {g \in includes : g # << >> /\ g # << "**", "*" >>},
                {<< ".git", "**" >>})

\* The hard exclusion of the loop of scanUniverseFiles.
IsGitPath(path) == path = << ".git" >> \/ Head(path) = ".git"

\* implicitNodeModulesDeny
implicitNodeModulesDeny(path, includes) ==
    /\ path = << "node_modules" >> \/ Head(path) = "node_modules"
    /\ ~makeGlobMatcher(includes, path)

\* `included` with the include applied after the exclude.
included_IncludeOverridesExclude(path, lines, includes, excludes) ==
    LET baseline == ~ignores(lines, path)
        afterExclude == IF makeGlobMatcher(excludes, path) THEN FALSE ELSE baseline
    IN  IF makeGlobMatcher(includes, path) THEN TRUE ELSE afterExclude

\* `included` at the end of the loop body of scanUniverseFiles.
included(path, lines, includes, excludes) ==
    LET baseline == ~ignores(lines, path)
        afterInclude == IF makeGlobMatcher(includes, path) THEN TRUE ELSE baseline
    IN  IF makeGlobMatcher(excludes, path) THEN FALSE ELSE afterInclude

\* scanUniverseFiles({ cwd, config }) with the lines of cwd/.gitignore
\* (none when the file is absent or unreadable).
scanUniverseFilesIn(disk, lines, config) ==
    uniqSorted({f \in ScanCandidates(disk, config.includes) :
                   /\ ~IsGitPath(f)
                   /\ ~implicitNodeModulesDeny(f, config.includes)
                   /\ included(f, lines, config.includes, config.excludes)})

-----------------------------------------------------------------------------
(* The selection helper on its own: one call of                            *)
(* summarizeDependencySelection on a graph and include/exclude lists.      *)

MaxDepth == 2
MaxInclude == 2
MaxExclude == 1

FinIdle == rawGraph = NoGraph /\ finalized = NoGraph /\ refinalized = NoGraph

NoCall == [done |-> FALSE]

CallIdle == call = NoCall

NoOptions ==
    [defaultEdgeKinds |-> KUndef, dropNodeKinds |-> KUndef, maxTop |-> DUndef,
     hashSizeEnforcement |-> "undefined"]

SelIdle ==
    /\ selGraph = NoGraph
    /\ include = << >>
    /\ exclude = << >>
    /\ options = NoOptions
    /\ summary = NoSummary

SelNode(id, kind, hash, size) ==
    makeNode(id, kind, inferLanguageFromPath(id), NoDesc, makeMetadata(hash, NoFlag, size))

\* The nodes of every selection graph: sized sources, a hashed source
\* without a size, an external file without hash or size, a builtin and a
\* missing module.  "zz.ts" is no node of the graph.
SelNodes ==
    << SelNode("./nope", "missing", NoHash, NoSize),
       SelNode("a.ts", "source", "h1", 100),
       SelNode("b.ts", "source", "h2", 50),
       SelNode("c.ts", "source", "h3", 10),
       SelNode("gen/x.ts", "source", "h4", NoSize),
       SelNode("node_modules/pkg/index.d.ts", "external", NoHash, NoSize),
       SelNode("node:fs", "builtin", NoHash, NoSize) >>

SelEdge(source, target, kind) ==
    [source |-> source, target |-> target, kind |-> kind]

FixedSelEdges ==
    { SelEdge("c.ts", "node:fs", "type"), SelEdge("c.ts", "zz.ts", "dynamic") }

CandidateSelEdges ==
    { SelEdge("a.ts", "b.ts", "runtime"), SelEdge("a.ts", "c.ts", "type"),
      SelEdge("b.ts", "c.ts", "runtime"), SelEdge("c.ts", "a.ts", "runtime") }

RECURSIVE SetToSeq(_)
SetToSeq(S) ==
    IF S = {} THEN << >>
    ELSE LET x == CHOOSE y \in S : TRUE IN << x >> \o SetToSeq(S \ {x})

\* The finalized graph with the nodes SelNodes and the given edges.
SelGraphOf(E) ==
    finalizeGraph(
        Graph([i \in 1..Len(SelNodes) |-> [key |-> SelNodes[i].id, val |-> SelNodes[i]]],
              [i \in 1..Len(SelNodes) |->
                 [key |-> SelNodes[i].id,
                  val |-> SetToSeq({[target |-> e.target, kind |-> e.kind,
                                     resolution |-> "explicit"] :
                                    e \in {x \in E : x.source = SelNodes[i].id}})]]))

\* Entries that differ in seed, depth and kinds.
ClosureEntries ==
    {Tuple(id, DInt(d), KArr(<< k >>)) :
        id \in {"a.ts", "b.ts"}, d \in 1..MaxDepth, k \in {"runtime", "type"}}

ExcludeEntries ==
    { Bare("b.ts"), Bare("c.ts"),
      Tuple("b.ts", DInt(1), KUndef), Tuple("c.ts", DInt(1), KArr(<< "runtime" >>)) }

\* Entries in every form a caller may write.
FormEntries ==
    {Bare(id) : id \in {"a.ts", "node:fs", "./nope", "zz.ts", "gen/x.ts",
                        "node_modules/pkg/index.d.ts", "", " "}}
    \cup {Tuple("a.ts", DInt(d), KMask(m)) : d \in 1..MaxDepth, m \in {1, 2, 5, 7}}
    \cup {Tuple("a.ts", DInt(1), KArr(items)) :
            items \in { << >>, << "bogus" >>, << "bogus", "runtime" >>,
                        << "type", "runtime", "type" >>, << NotAString, "runtime" >> }}
    \cup {Tuple("a.ts", d, KUndef) :
            d \in {DInt(MaxDepth), DInt(MaxDepth + 1), DNum(3), DInt(0 - 1), DOther("NaN"),
                   DOther("Infinity"), DOther("string"), DUndef}}
    \cup {Tuple(id, DInt(1), KArr(<< "bogus" >>)) : id \in {NotAString, "", " "}}

OptionMenu ==
    { NoOptions,
      [NoOptions EXCEPT !.dropNodeKinds = KArr(<< >>)],
      [NoOptions EXCEPT !.dropNodeKinds = KArr(<< >>), !.hashSizeEnforcement = "error"],
      [NoOptions EXCEPT !.hashSizeEnforcement = "ignore", !.maxTop = DInt(1)],
      [NoOptions EXCEPT !.defaultEdgeKinds = KArr(<< "type", "bogus", "type" >>),
                        !.maxTop = DOther("NaN")] }

InitSel ==
    /\ mode = "select"
    /\ FinIdle
    /\ \E E \in SUBSET CandidateSelEdges : selGraph = SelGraphOf(E \cup FixedSelEdges)
    /\ \/ /\ include \in SeqsUpTo(ClosureEntries, MaxInclude) \ {<< >>}
          /\ exclude \in SeqsUpTo(ExcludeEntries, MaxExclude)
          /\ options = NoOptions
       \/ /\ \E e \in FormEntries : include = << e >>
          /\ exclude = << >>
          /\ options \in OptionMenu
    /\ summary = NoSummary
    /\ BuildIdle
    /\ CallIdle

\* summarizeDependencySelection({ graph, include, exclude, options })
Summarize ==
    /\ mode = "select"
    /\ summary = NoSummary
    /\ summary' = summarizeDependencySelection(selGraph, include, exclude, options)
    /\ UNCHANGED <<mode, call, finVars, selGraph, include, exclude, options, buildVars>>

NextSel == Summarize

SpecSel == InitSel /\ [][NextSel]_vars

-----------------------------------------------------------------------------
(* The finalizer on its own: finalizeGraph applied to a raw graph, and     *)
(* again to its own result.                                                *)

MaxRawNodes == 2
MaxRawEdges == 3

FinIds == {"a.ts", "b.ts", "node:fs"}

\* Raw nodes as a caller may write them: metadata with a false flag, an
\* empty hash, a missing size, an empty metadata object, padded or blank
\* descriptions.
RawNodeMenu(id) ==
    { [id |-> id, kind |-> "source", language |-> "ts", description |-> NoDesc,
       metadata |-> [has |-> TRUE, hash |-> "h1", isOutsideRoot |-> NoFlag, size |-> 10]],
      [id |-> id, kind |-> "external", language |-> "ts",
       description |-> << " ", "x", " " >>,
       metadata |-> [has |-> TRUE, hash |-> "", isOutsideRoot |-> "false", size |-> 0]],
      [id |-> id, kind |-> "missing", language |-> "other",
       description |-> << " " >>,
       metadata |-> [has |-> TRUE, hash |-> NoHash, isOutsideRoot |-> NoFlag,
                     size |-> NoSize]] }

RawEdgeSet ==
    { [target |-> "b.ts", kind |-> "runtime", resolution |-> "explicit"],
      [target |-> "b.ts", kind |-> "runtime", resolution |-> "implicit"],
      [target |-> "b.ts", kind |-> "dynamic", resolution |-> "explicit"],
      [target |-> "a.ts", kind |-> "type", resolution |-> "explicit"] }

\* Edge lists recorded for a source that is no node of the graph.
StrayEdgeMenu ==
    { << >>,
      << [key |-> "zz.ts",
          val |-> << [target |-> "a.ts", kind |-> "runtime", resolution |-> "explicit"] >>] >> }

InitFin ==
    /\ mode = "finalize"
    /\ \E order \in InjSeqsUpTo(FinIds, MaxRawNodes) :
       \E pick \in [Range(order) -> UNION {RawNodeMenu(id) : id \in FinIds}] :
       \E list \in SeqsUpTo(RawEdgeSet, MaxRawEdges) :
       \E stray \in StrayEdgeMenu :
          /\ \A id \in Range(order) : pick[id] \in RawNodeMenu(id)
          /\ rawGraph =
                Graph([i \in 1..Len(order) |-> [key |-> order[i], val |-> pick[order[i]]]],
                      stray \o << [key |-> "a.ts", val |-> list] >>)
    /\ finalized = NoGraph
    /\ refinalized = NoGraph
    /\ SelIdle
    /\ BuildIdle
    /\ CallIdle

\* finalizeGraph(rawGraph)
Finalize ==
    /\ mode = "finalize"
    /\ finalized = NoGraph
    /\ finalized' = finalizeGraph(rawGraph)
    /\ UNCHANGED <<mode, call, rawGraph, refinalized, selVars, buildVars>>

\* finalizeGraph(finalizeGraph(rawGraph))
Refinalize ==
    /\ mode = "finalize"
    /\ finalized # NoGraph
    /\ refinalized = NoGraph
    /\ refinalized' = finalizeGraph(finalized)
    /\ UNCHANGED <<mode, call, rawGraph, finalized, selVars, buildVars>>

NextFin == Finalize \/ Refinalize

SpecFin == InitFin /\ [][NextFin]_vars

-----------------------------------------------------------------------------
(* Building the graph of a repository whose files change between calls of  *)
(* generateDependencyGraph.                                                *)

MaxEdits == 2
MaxBuilds == 2
MaxLegacy == 11

\* The repository as first seen: every module there, a.ts and the root
\* package.json with any of their texts.
InitialFiles ==
    {[f \in AllFiles |->
        IF f = "a.ts" THEN a
        ELSE IF f = "package.json" THEN j
        ELSE CHOOSE h \in TextMenu(f) : h # Absent /\ h \in {"b1", "c1", "x1", "p1", "pa1",
                                                               "o1", "j1", "j2"}] :
        a \in TextMenu("a.ts"), j \in TextMenu("package.json")}

HashSizeEnforcements == {"undefined", "warn", "error", "ignore"}

InitBuild ==
    /\ mode = "build"
    /\ FinIdle
    /\ SelIdle
    /\ fs \in InitialFiles
    /\ tsAvailable \in BOOLEAN
    /\ packageRootCache = << >>
    /\ \E e \in HashSizeEnforcements : built = [NoBuilt EXCEPT !.hashSizeEnforcement = e]
    /\ edits = 0
    /\ builds = 0
    /\ CallIdle

\* A file is written with another text, created or deleted.
EditFile ==
    /\ mode = "build"
    /\ edits < MaxEdits
    /\ \E f \in AllFiles : \E h \in TextMenu(f) \ {fs[f]} :
          fs' = [fs EXCEPT ![f] = h]
    /\ edits' = edits + 1
    /\ UNCHANGED <<mode, call, finVars, selVars, tsAvailable, packageRootCache, built, builds>>

\* A graph as a version that did not record sizes persisted it: the
\* nodes keep their hashes and have no size.
WithoutSizes(g) ==
    [g EXCEPT !.nodes =
        [i \in 1..Len(g.nodes) |->
            [key |-> g.nodes[i].key,
             val |-> [g.nodes[i].val EXCEPT !.metadata.size = NoSize]]]]

LegacyIds ==
    << "node_modules/legacy/01.d.ts", "node_modules/legacy/02.d.ts",
       "node_modules/legacy/03.d.ts", "node_modules/legacy/04.d.ts",
       "node_modules/legacy/05.d.ts", "node_modules/legacy/06.d.ts",
       "node_modules/legacy/07.d.ts", "node_modules/legacy/08.d.ts",
       "node_modules/legacy/09.d.ts", "node_modules/legacy/10.d.ts",
       "node_modules/legacy/11.d.ts", "node_modules/legacy/12.d.ts" >>

\* A graph put together by hand from a returned one: the source `from`
\* has, besides its edges, type edges to k declaration files that are no
\* longer on disk and whose nodes have a hash and no size.
WithLegacy(g, from, k) ==
    finalizeGraph(
        Graph(g.nodes \o [i \in 1..k |->
                            [key |-> LegacyIds[i],
                             val |-> makeNode(LegacyIds[i], "external", "ts", NoDesc,
                                              [has |-> TRUE, hash |-> "legacy",
                                               isOutsideRoot |-> NoFlag,
                                               size |-> NoSize])]],
              [i \in 1..Len(g.edges) |->
                  IF g.edges[i].key = from
                  THEN [key |-> from,
                        val |-> g.edges[i].val
                                \o [j \in 1..k |-> Edge(LegacyIds[j], "type", "explicit")]]
                  ELSE g.edges[i]]))

\* The analyzable sources among the nodes of g, in the order of its keys.
AnalyzableIn(g) == SelectSeq(KeySeq(g.nodes), isAnalyzableSource)

\* What a caller can pass as previousGraph after the last call: nothing,
\* the graph it returned, or that graph in an older or hand-made form.
PreviousGraphs ==
    {[kind |-> "none", graph |-> NoGraph]}
    \cup (IF built.none \/ built.threw THEN {}
          ELSE {[kind |-> "returned", graph |-> built.graph]}
               \cup {[kind |-> "older", graph |-> WithoutSizes(built.graph)]}
               \cup {[kind |-> "handmade",
                      graph |-> WithLegacy(built.graph, Head(AnalyzableIn(built.graph)), k)] :
                        k \in IF AnalyzableIn(built.graph) = << >> THEN {}
                              ELSE {MaxLegacy - 1, MaxLegacy}})


\* generateDependencyGraph({ cwd, previousGraph, hashSizeEnforcement }),
\* with the hashSizeEnforcement of the caller's configuration.
BuildGraph ==
    /\ mode = "build"
    /\ builds < MaxBuilds
    /\ \E prev \in PreviousGraphs :
          \E r \in {generateDependencyGraph(fs, packageRootCache, tsAvailable,
                                            prev.graph, built.hashSizeEnforcement)} :
             /\ built' =
                   [none |-> FALSE, graph |-> r.graph, stats |-> r.stats,
                    errors |-> r.errors, plan |-> r.plan, raw |-> r.raw,
                    origins |-> r.origins \cup
                        {o \in built.origins :
                            o.source \in Keys(r.plan.reusedEdgesBySource)},
                    previousGraph |-> prev.graph,
                    files |-> fs,
                    previousFiles |-> IF prev.kind = "none" THEN NoFiles ELSE built.files,
                    threw |-> r.threw, failure |-> r.failure, uncapped |-> r.uncapped,
                    hashSizeEnforcement |-> built.hashSizeEnforcement,
                    previous |-> prev.kind, cacheBefore |-> packageRootCache]
             /\ packageRootCache' = r.cache
    /\ builds' = builds + 1
    /\ UNCHANGED <<mode, call, finVars, selVars, fs, tsAvailable, edits>>

NextBuild == EditFile \/ BuildGraph

SpecBuild == InitBuild /\ [][NextBuild]_vars

-----------------------------------------------------------------------------
(* The universe scanner on its own: one call of scanUniverseFiles on a     *)
(* disk, a .gitignore and a config.                                        *)

MaxIncludes == 2
MaxExcludes == 1
MaxIgnoreLines == 1

GlobMenu ==
    {<< >>, << "**", "*" >>, << "*.txt" >>, << "ignored.txt" >>, << ".git", "**" >>,
     << "node_modules", "**" >>, << "node_modules", "pkg", "**" >>, << "src", "**" >>}

IgnoreLineMenu ==
    {<< "ignored.txt" >>, << "*.txt" >>, << "src" >>, << "node_modules", "**" >>}

SubsetsUpTo(S, n) == {T \in SUBSET S : Cardinality(T) <= n}

InitScan ==
    /\ mode = "scan"
    /\ FinIdle
    /\ SelIdle
    /\ BuildIdle
    /\ \E inc \in SubsetsUpTo(GlobMenu, MaxIncludes) :
       \E exc \in SubsetsUpTo(GlobMenu, MaxExcludes) :
       \E lines \in SubsetsUpTo(IgnoreLineMenu, MaxIgnoreLines) :
          call = [done |-> FALSE, disk |-> ScanPaths, lines |-> lines,
                  config |-> [includes |-> inc, excludes |-> exc],
                  candidates |-> {}, out |-> << >>]

\* scanUniverseFiles({ cwd, config })
ScanUniverseFiles ==
    /\ mode = "scan"
    /\ ~call.done
    /\ call' = [call EXCEPT
                  !.done = TRUE,
                  !.candidates = ScanCandidates(call.disk, call.config.includes),
                  !.out = scanUniverseFilesIn(call.disk, call.lines, call.config)]
    /\ UNCHANGED <<mode, finVars, selVars, buildVars>>

NextScan == ScanUniverseFiles

SpecScan == InitScan /\ [][NextScan]_vars

-----------------------------------------------------------------------------
(* The error capper on its own: one call of capErrors on a list and a cap. *)

MaxErrorList == 4
MaxCap == 4

ErrorMenu == {[msg |-> "first error", id |-> ""], [msg |-> "second error", id |-> ""]}

\* The caps: every multiple of one half from -1 to MaxCap + 1/2, and a
\* number that is not finite.
CapMenu == {Halves(n) : n \in (0 - 2)..(MaxCap + MaxCap + 1)} \cup {NotFinite}

InitCap ==
    /\ mode = "cap"
    /\ FinIdle
    /\ SelIdle
    /\ BuildIdle
    /\ \E errors \in SeqsUpTo(ErrorMenu, MaxErrorList) : \E maxErrors \in CapMenu :
          call = [done |-> FALSE, errors |-> errors, maxErrors |-> maxErrors,
                  out |-> << >>]

\* capErrors(errors, maxErrors)
CapErrors ==
    /\ mode = "cap"
    /\ ~call.done
    /\ call' = [call EXCEPT !.done = TRUE,
                            !.out = capErrors(call.errors, call.maxErrors)]
    /\ UNCHANGED <<mode, finVars, selVars, buildVars>>

NextCap == CapErrors

SpecCap == InitCap /\ [][NextCap]_vars

-----------------------------------------------------------------------------
(* Re-export traversal on its own: calls of resolveDefiningExportsForName  *)
(* on a set of barrel modules, each with a cache of its own or with the    *)
(* cache the caller keeps between calls.                                   *)

MaxCalls == 2

BarrelFiles == {"a.ts", "b.ts", "c.ts"}

ExportNames == {"X", "Y"}

\* The texts each barrel module may hold.
BarrelMenu(file) ==
    CASE file = "a.ts" -> {"ra1", "ra2", "ra3", "ra4"}
      [] file = "b.ts" -> {"rb1", "rb2", "rb3", "rb4", Absent}
      [] file = "c.ts" -> {"rc1", "rc2", "rc3", "rc4"}

BarrelDisks ==
    {[f \in AllFiles |-> IF f \in BarrelFiles THEN d[f] ELSE Absent] :
        d \in {x \in [BarrelFiles -> {"ra1", "ra2", "ra3", "ra4", "rb1", "rb2", "rb3",
                                      "rb4", "rc1", "rc2", "rc3", "rc4", Absent}] :
                  \A f \in BarrelFiles : x[f] \in BarrelMenu(f)}}

\* createReexportTraversalCache().memo
EmptyMemo == << >>

InitReexport ==
    /\ mode = "reexport"
    /\ FinIdle
    /\ SelIdle
    /\ BuildIdle
    /\ \E disk \in BarrelDisks :
          call = [done |-> FALSE, files |-> disk, memo |-> EmptyMemo, calls |-> 0,
                  entry |-> "", exportName |-> "", given |-> FALSE,
                  memoBefore |-> EmptyMemo, out |-> << >>]

\* resolveDefiningExportsForName({ entrySourceFile, exportName, cache? }):
\* with args.cache the traversal reads and fills the caller's cache,
\* without it a new one.
ResolveDefiningExports ==
    /\ mode = "reexport"
    /\ call.calls < MaxCalls
    /\ \E entry \in BarrelFiles, exportName \in ExportNames, given \in BOOLEAN :
          /\ Exists(call.files, entry)
          /\ \E r \in {visit(call.files, entry, exportName, {},
                              IF given THEN call.memo ELSE EmptyMemo)} :
                call' = [call EXCEPT !.done = TRUE, !.calls = @ + 1,
                                     !.entry = entry, !.exportName = exportName,
                                     !.given = given,
                                     !.memoBefore = IF given THEN call.memo ELSE EmptyMemo,
                                     !.memo = IF given THEN r.memo ELSE call.memo,
                                     !.out = r.out]
    /\ UNCHANGED <<mode, finVars, selVars, buildVars>>

NextReexport == ResolveDefiningExports

SpecReexport == InitReexport /\ [][NextReexport]_vars

-----------------------------------------------------------------------------
(* One call of resolveDefiningExportsForName step by step: the call stack  *)
(* of visit as a sequence of frames, the innermost last.  A frame holds    *)
(* the key being resolved, `out` so far and the forwarding targets the     *)
(* loop has still to take.                                                 *)

Frame(files, file, exportName) ==
    [file |-> file, exportName |-> exportName,
     out |-> OwnExport(file, Content(files[file]).statements, exportName),
     targets |-> ForwardingTargets(Content(files[file]).statements, exportName)]

\* The cycle stack: the keys of the frames.
StackKeys(frames) == {<< frames[i].file, frames[i].exportName >> : i \in 1..Len(frames)}

Top(frames) == frames[Len(frames)]

\* The loop of the innermost frame moves on to its next target.
NextTarget(frames) == [frames EXCEPT ![Len(frames)].targets = Tail(@)]

\* `out.push(...value)` in the innermost frame.
PushOut(frames, value) == [frames EXCEPT ![Len(frames)].out = @ \o value]

\* `return []` for a key that is on the stack, left at the same target.
ReturnedEmpty_SameTarget(frames) == frames

\* `return []` for a key that is on the stack: nothing is pushed and the
\* loop of the caller goes on with the remaining targets.
ReturnedEmpty(frames) == NextTarget(frames)

\* The file and key the next target of the innermost frame leads to.
HeadTarget == Head(Top(call.frames).targets)

HeadResolution == resolveModuleSpecifier(call.files, Top(call.frames).file, HeadTarget.specifier)

HeadKey == << HeadResolution.id, HeadTarget.importName >>

InLoop == mode = "visit" /\ call.frames # << >> /\ Top(call.frames).targets # << >>

InitVisit ==
    /\ mode = "visit"
    /\ FinIdle
    /\ SelIdle
    /\ BuildIdle
    /\ \E disk \in BarrelDisks, entry \in BarrelFiles, exportName \in ExportNames :
          /\ Exists(disk, entry)
          /\ call = [done |-> FALSE, started |-> FALSE, files |-> disk, entry |-> entry,
                     exportName |-> exportName, memo |-> EmptyMemo, frames |-> << >>,
                     out |-> << >>, revisited |-> FALSE, resumed |-> FALSE]

\* visit(entrySourceFile, args.exportName, new Set()): nothing is memoized
\* and the stack is empty.
EnterVisit ==
    /\ mode = "visit"
    /\ ~call.started
    /\ call' = [call EXCEPT !.started = TRUE,
                            !.frames = << Frame(call.files, call.entry, call.exportName) >>]
    /\ UNCHANGED <<mode, finVars, selVars, buildVars>>

\* `if (!abs) continue; if (!nextSf) continue;`
SkipUnresolved ==
    /\ InLoop
    /\ HeadResolution.kind # "file"
    /\ call' = [call EXCEPT !.frames = NextTarget(call.frames)]
    /\ UNCHANGED <<mode, finVars, selVars, buildVars>>

\* A namespace-forwarding target: its module is pushed.
PushModule ==
    /\ InLoop
    /\ HeadResolution.kind = "file"
    /\ HeadTarget.kind = "module"
    /\ call' = [call EXCEPT !.frames =
                    NextTarget(PushOut(call.frames, << ModuleExport(HeadResolution.id) >>))]
    /\ UNCHANGED <<mode, finVars, selVars, buildVars>>

\* visit of a memoized key: `if (memo) return memo`.
ReturnMemo ==
    /\ InLoop
    /\ HeadResolution.kind = "file"
    /\ HeadTarget.kind = "symbol"
    /\ HeadKey \in DOMAIN call.memo
    /\ call' = [call EXCEPT !.frames = NextTarget(PushOut(call.frames, call.memo[HeadKey]))]
    /\ UNCHANGED <<mode, finVars, selVars, buildVars>>

\* visit of a key that is on the stack: `if (stack.has(key)) return []`.
ReturnOnStack ==
    /\ InLoop
    /\ HeadResolution.kind = "file"
    /\ HeadTarget.kind = "symbol"
    /\ HeadKey \notin DOMAIN call.memo
    /\ HeadKey \in StackKeys(call.frames)
    /\ call' = [call EXCEPT !.frames = ReturnedEmpty(call.frames),
                            !.revisited = TRUE,
                            !.resumed = @ \/ Len(Top(call.frames).targets) > 1]
    /\ UNCHANGED <<mode, finVars, selVars, buildVars>>

\* visit of a new key: `stack.add(key)` and the body starts.
Descend ==
    /\ InLoop
    /\ HeadResolution.kind = "file"
    /\ HeadTarget.kind = "symbol"
    /\ HeadKey \notin DOMAIN call.memo
    /\ HeadKey \notin StackKeys(call.frames)
    /\ call' = [call EXCEPT !.frames =
                    Append(NextTarget(call.frames),
                           Frame(call.files, HeadKey[1], HeadKey[2]))]
    /\ UNCHANGED <<mode, finVars, selVars, buildVars>>

\* The loop is over: uniqByKey, cache.memo.set, stack.delete, return; the
\* caller pushes the result, the outermost visit returns it.
Complete ==
    /\ mode = "visit"
    /\ call.frames # << >>
    /\ Top(call.frames).targets = << >>
    /\ \E top \in {Top(call.frames)}, rest \in {SubSeq(call.frames, 1, Len(call.frames) - 1)} :
          call' = [call EXCEPT
                     !.memo = MemoSet(@, << top.file, top.exportName >>, uniqByKey(top.out)),
                     !.frames = IF rest = << >> THEN rest
                                ELSE PushOut(rest, uniqByKey(top.out)),
                     !.done = rest = << >>,
                     !.out = IF rest = << >> THEN uniqByKey(top.out) ELSE @]
    /\ UNCHANGED <<mode, finVars, selVars, buildVars>>

NextVisit ==
    \/ EnterVisit
    \/ SkipUnresolved
    \/ PushModule
    \/ ReturnMemo
    \/ ReturnOnStack
    \/ Descend
    \/ Complete

SpecVisit == InitVisit /\ [][NextVisit]_vars

\* The call runs on: JavaScript runs a synchronous function to its end.
SpecVisitLive == SpecVisit /\ WF_vars(NextVisit)

-----------------------------------------------------------------------------
(* expandClosure step by step: the entries are seeded, then the queue is   *)
(* drained one element at a time.  `enqueued` keeps every element that was *)
(* ever put on the queue, in order.                                        *)

LargeDepth == 1000

\* Entries that differ in seed, depth and kinds, small depths and a depth
\* far above the size of the graph.
ExpandEntries ==
    {Tuple(id, DInt(d), KArr(ks)) :
        id \in {"a.ts", "b.ts"}, d \in {1, MaxDepth, LargeDepth},
        ks \in { << "runtime" >>, << "runtime", "type" >> }}

InitExpand ==
    /\ mode = "expand"
    /\ FinIdle
    /\ SelIdle
    /\ BuildIdle
    /\ \E E \in SUBSET CandidateSelEdges,
          entries \in SeqsUpTo(ExpandEntries, MaxInclude) \ {<< >>} :
          call = [done |-> FALSE, seeded |-> FALSE,
                  graph |-> SelGraphOf(E \cup FixedSelEdges), entries |-> entries,
                  selected |-> {}, best |-> << >>, queue |-> << >>, warnings |-> {},
                  enqueued |-> << >>, out |-> {}]

\* The state expandClosure works on, out of the call record and back.
ExpandState ==
    [selected |-> call.selected, best |-> call.best, queue |-> call.queue,
     warnings |-> call.warnings]

AfterStep(st, from) ==
    [call EXCEPT !.seeded = TRUE, !.selected = st.selected, !.best = st.best,
                 !.queue = st.queue, !.warnings = st.warnings,
                 !.enqueued = @ \o SubSeq(st.queue, from, Len(st.queue))]

\* args.entries.forEach(...)
SeedQueue ==
    /\ mode = "expand"
    /\ ~call.seeded
    /\ call' = AfterStep(SeedEntries(call.entries, 1, DEFAULT_EDGE_KINDS, ExpandState), 1)
    /\ UNCHANGED <<mode, finVars, selVars, buildVars>>

Draining == mode = "expand" /\ call.seeded /\ ~call.done /\ call.queue # << >>

\* queue.shift() of an element with no depth or no kinds left: `continue`.
SkipSpent ==
    /\ Draining
    /\ Head(call.queue).remaining <= 0 \/ Head(call.queue).edgeKinds = << >>
    /\ call' = [call EXCEPT !.queue = Tail(@)]
    /\ UNCHANGED <<mode, finVars, selVars, buildVars>>

\* queue.shift() and the loop over the out-edges of the element.
ExpandNode ==
    /\ Draining
    /\ Head(call.queue).remaining > 0
    /\ Head(call.queue).edgeKinds # << >>
    /\ call' = AfterStep(VisitOuts(EdgesOf(call.graph, Head(call.queue).id),
                                   Head(call.queue),
                                   [ExpandState EXCEPT !.queue = Tail(@)]),
                         Len(call.queue))
    /\ UNCHANGED <<mode, finVars, selVars, buildVars>>

\* The queue is empty: `return selected`.
ReturnSelected ==
    /\ mode = "expand"
    /\ call.seeded
    /\ ~call.done
    /\ call.queue = << >>
    /\ call' = [call EXCEPT !.done = TRUE, !.out = call.selected]
    /\ UNCHANGED <<mode, finVars, selVars, buildVars>>

NextExpand ==
    \/ SeedQueue
    \/ SkipSpent
    \/ ExpandNode
    \/ ReturnSelected

SpecExpand == InitExpand /\ [][NextExpand]_vars

\* The call runs on: JavaScript runs a synchronous function to its end.
SpecExpandLive == SpecExpand /\ WF_vars(NextExpand)

-----------------------------------------------------------------------------
(* The commander rule on its own: one call of filterCommanderRule on an    *)
(* external barrel and a list of declaration files, in a process that      *)
(* looked up no package root before.                                       *)

MaxDecls == 2

ExternalBarrels == {"node_modules/pkg/index.d.ts", "node_modules/other/index.d.ts"}

DeclarationFiles ==
    {"node_modules/pkg/a.d.ts", "node_modules/pkg/index.d.ts",
     "node_modules/other/index.d.ts", "/shared/x.ts"}

PackageJsonFiles ==
    {"package.json", "node_modules/pkg/package.json", "node_modules/other/package.json"}

\* Disks with every module of the model and any of the package.json files.
PackageDisks ==
    {[f \in AllFiles |->
        IF f \in PackageJsonFiles THEN (IF f \in P THEN "j0" ELSE Absent)
        ELSE CHOOSE h \in TextMenu(f) : h # Absent] : P \in SUBSET PackageJsonFiles}

InitCommander ==
    /\ mode = "commander"
    /\ FinIdle
    /\ SelIdle
    /\ BuildIdle
    /\ \E disk \in PackageDisks, barrel \in ExternalBarrels,
          decls \in InjSeqsUpTo(DeclarationFiles, MaxDecls) :
          call = [done |-> FALSE, files |-> disk, barrelAbsPath |-> barrel,
                  declarationAbsPaths |-> decls, out |-> << >>]

\* filterCommanderRule({ barrelAbsPath, declarationAbsPaths })
FilterCommanderRule ==
    /\ mode = "commander"
    /\ ~call.done
    /\ call' = [call EXCEPT
                   !.done = TRUE,
                   !.out = filterCommanderRule(call.files, << >>, call.barrelAbsPath,
                                               call.declarationAbsPaths).out]
    /\ UNCHANGED <<mode, finVars, selVars, buildVars>>

NextCommander == FilterCommanderRule

SpecCommander == InitCommander /\ [][NextCommander]_vars

-----------------------------------------------------------------------------
(* Properties of the finalizer.                                            *)

\* e1 comes strictly before e2 in the order target, kind, resolution.
TripleBefore(e1, e2) ==
    LET t1 == IndexOf(IdOrder, e1.target)
        t2 == IndexOf(IdOrder, e2.target)
        k1 == IndexOf(KindOrder, e1.kind)
        k2 == IndexOf(KindOrder, e2.kind)
        r1 == IndexOf(ResolutionOrder, e1.resolution)
        r2 == IndexOf(ResolutionOrder, e2.resolution)
    IN  \/ t1 < t2
        \/ t1 = t2 /\ k1 < k2
        \/ t1 = t2 /\ k1 = k2 /\ r1 < r2

NoDuplicateTriples(list) ==
    \A i, j \in 1..Len(list) :
        i # j => << list[i].target, list[i].kind, list[i].resolution >>
                 # << list[j].target, list[j].kind, list[j].resolution >>

SortedByTriple(list) ==
    \A i, j \in 1..Len(list) : i < j => ~TripleBefore(list[j], list[i])

\* C2: in every finalized graph, each edge list edges[src] holds no two
\* edges with the same (target, kind, resolution) and is sorted ascending by
\* target, then kind, then resolution.
C2_EdgeListsDedupedAndSorted ==
    \A g \in {finalized, refinalized} :
        ~g.none =>
            \A i \in 1..Len(g.edges) :
                /\ NoDuplicateTriples(g.edges[i].val)
                /\ SortedByTriple(g.edges[i].val)

\* C2 witness: a finalized graph whose node a.ts was given three raw edges,
\* one of them twice and not in order, and keeps two.
C2_Witness ==
    /\ ~finalized.none
    /\ "a.ts" \in Keys(finalized.nodes)
    /\ Len(EdgesOf(rawGraph, "a.ts")) = 3
    /\ ~NoDuplicateTriples(EdgesOf(rawGraph, "a.ts"))
    /\ ~SortedByTriple(EdgesOf(rawGraph, "a.ts"))
    /\ Len(EdgesOf(finalized, "a.ts")) = 2

\* C9: finalization is idempotent: finalizeGraph(finalizeGraph(G)) equals
\* finalizeGraph(G) for every raw graph G.
C9_FinalizeIdempotent ==
    ~refinalized.none => refinalized = finalized

\* C9 witness: finalizeGraph has run twice on a raw graph it had to change:
\* nodes out of key order, a node whose metadata and description normalize
\* away, duplicate edges, and edges recorded for a source that is no node.
C9_Witness ==
    /\ ~refinalized.none
    /\ Len(rawGraph.nodes) = 2
    /\ KeySeq(rawGraph.nodes) # KeySeq(finalized.nodes)
    /\ \E i \in 1..Len(rawGraph.nodes) :
          /\ rawGraph.nodes[i].val.metadata.has
          /\ ~NodeOf(finalized, rawGraph.nodes[i].key).metadata.has
    /\ "zz.ts" \in Keys(rawGraph.edges)
    /\ "zz.ts" \notin Keys(finalized.edges)
    /\ "a.ts" \in Keys(finalized.nodes)
    /\ ~NoDuplicateTriples(EdgesOf(rawGraph, "a.ts"))

-----------------------------------------------------------------------------
(* Properties of the selection helper.                                     *)

\* The nodes reachable from id by at most depth outgoing edges of the given
\* kinds, id included.
RECURSIVE ReachWithin(_, _, _, _)
ReachWithin(graph, id, depth, kinds) ==
    IF depth <= 0 THEN {id}
    ELSE {id} \cup UNION {ReachWithin(graph, e.target, depth - 1, kinds) :
                            e \in {x \in Range(EdgesOf(graph, id)) : x.kind \in kinds}}

\* The entries as normalizeEntry leaves them, those without a node id dropped.
NormalizedEntries(entries, defaultEdgeKinds) ==
    {n \in {normalizeEntry(entries[i], defaultEdgeKinds, i - 1) : i \in 1..Len(entries)} :
        n.nodeId # ""}

\* The union, over the normalized entries, of the seed and what is reachable
\* from it within the entry's depth along the entry's kinds.
ClosureUnion(graph, entries, defaultEdgeKinds) ==
    UNION {ReachWithin(graph, n.nodeId, n.depth, Range(n.edgeKinds)) :
             n \in NormalizedEntries(entries, defaultEdgeKinds)}

Summarized == ~summary.none

\* C5: for every list of entries, the expanded set is exactly the union,
\* over the normalized entries, of the seed and the nodes reachable from it
\* within the entry's depth along edges of the entry's kinds, also when
\* several entries or paths reach the same node.
C5_ClosureIsUnionOverEntries ==
    Summarized =>
        \A entries \in {include, exclude} :
            expandClosure(selGraph, entries, defaultEdgeKindsOf(options)).selected
            = ClosureUnion(selGraph, entries, defaultEdgeKindsOf(options))

\* The selection before node-kind dropping: what was returned, and what the
\* warnings say was dropped.
SelectionBeforeDrop ==
    Range(summary.selectedNodeIds)
    \cup {w.id : w \in {x \in Range(summary.warnings) : x.msg = MsgOrder[1]}}

IncludeClosure == expandClosure(selGraph, include, defaultEdgeKindsOf(options)).selected

ExcludeClosure == expandClosure(selGraph, exclude, defaultEdgeKindsOf(options)).selected

\* C6: excludes always win: the selection before node-kind dropping is the
\* include closure minus the exclude closure, no id of the exclude closure
\* is among selectedNodeIds, and exclude entries of depth 0 remove only the
\* nodes they name.
C6_ExcludesAlwaysWin ==
    (Summarized /\ ~summary.threw) =>
        /\ SelectionBeforeDrop = IncludeClosure \ ExcludeClosure
        /\ Range(summary.selectedNodeIds) \cap ExcludeClosure = {}
        /\ (\A n \in NormalizedEntries(exclude, defaultEdgeKindsOf(options)) : n.depth = 0)
              => SelectionBeforeDrop
                 = IncludeClosure
                   \ {n.nodeId : n \in NormalizedEntries(exclude, defaultEdgeKindsOf(options))}

\* C6 witness: a depth-0 exclude names a node of the include closure that
\* has an outgoing edge; the node is gone from the selection and the target
\* of its edge is still selected.
C6_Witness ==
    /\ Summarized
    /\ exclude # << >>
    /\ \A n \in NormalizedEntries(exclude, defaultEdgeKindsOf(options)) : n.depth = 0
    /\ \E x \in ExcludeClosure \cap IncludeClosure :
          /\ x \notin Range(summary.selectedNodeIds)
          /\ \E e \in Range(EdgesOf(selGraph, x)) :
                e.target \in Range(summary.selectedNodeIds)

\* The kinds whose bits are set in a mask: runtime=1, type=2, dynamic=4.
MaskKinds(m) ==
    (IF m % 2 = 1 THEN << "runtime" >> ELSE << >>)
    \o (IF (m \div 2) % 2 = 1 THEN << "type" >> ELSE << >>)
    \o (IF (m \div 4) % 2 = 1 THEN << "dynamic" >> ELSE << >>)

\* C10: an entry whose third element is a numeric bitmask is accepted (no
\* warning about its edge kinds) and selects what the same entry selects
\* when written with the array of the kinds whose bits are set.
C10_MaskEqualsArrayForm ==
    (/\ Summarized
     /\ Len(include) = 1
     /\ include[1].form = "tuple"
     /\ include[1].kinds.t = "number")
    => /\ summary.selectedNodeIds
          = summarizeDependencySelection(
                selGraph,
                << [include[1] EXCEPT !.kinds = KArr(MaskKinds(include[1].kinds.n))] >>,
                exclude, options).selectedNodeIds
       /\ \A w \in Range(summary.warnings) : w.msg # MsgOrder[4]

-----------------------------------------------------------------------------
(* Properties of generateDependencyGraph.                                  *)

\* The last call returned.
Built == ~built.none /\ ~built.threw

Incremental == Built /\ ~built.previousGraph.none

\* C1: in every graph generateDependencyGraph returns, every key of `nodes`
\* is a key of `edges`; a node without outgoing edges has the empty list.
C1_EveryNodeHasAnEdgeList ==
    Built => /\ Keys(built.graph.nodes) \subseteq Keys(built.graph.edges)
             /\ \A id \in Keys(built.graph.nodes) :
                   id \notin Keys(built.raw.edges) => ValueOf(built.graph.edges, id) = << >>

\* A returned graph with a node the edges handed to the finalizer had no
\* key for.
C1_Witness ==
    /\ Built
    /\ \E id \in Keys(built.graph.nodes) :
          /\ id \notin Keys(built.raw.edges)
          /\ id \in Keys(built.graph.edges)
          /\ ValueOf(built.graph.edges, id) = << >>

\* C3: when no file changed since the call that returned previousGraph, the
\* call with previousGraph returns an equal graph and reports stats.dirty = 0.
C3_IncrementalEquivalence ==
    (Incremental /\ built.previous = "returned" /\ built.files = built.previousFiles)
        => (built.graph = built.previousGraph /\ built.stats.dirty = 0)

HasEdge(g, x, y) == \E i \in 1..Len(EdgesOf(g, x)) : EdgesOf(g, x)[i].target = y

\* The nodes with a chain of edges of g into `targets`, and `targets`.
RECURSIVE Upstream(_, _)
Upstream(g, targets) ==
    CHOOSE r \in {
        IF {x \in Keys(g.edges) : \E y \in T : HasEdge(g, x, y)} \subseteq T THEN T
        ELSE Upstream(g, T \cup {x \in Keys(g.edges) : \E y \in T : HasEdge(g, x, y)})
        : T \in {targets}} : TRUE

\* File c has another text, or none, than at the previous call.
ChangedOnDisk(c) == c \in AllFiles /\ built.files[c] # built.previousFiles[c]

EndsAChain(c) ==
    /\ c \in Keys(built.previousGraph.nodes)
    /\ \E a, b \in Keys(built.previousGraph.edges) :
          /\ a # b /\ a # c /\ b # c
          /\ HasEdge(built.previousGraph, a, b)
          /\ HasEdge(built.previousGraph, b, c)

dirtySourceIds == Range(built.plan.dirtySourceIds)

\* C4, as stated: when C changed on disk between the calls and the previous
\* graph has a chain A -> B -> C, all of the chain, C included, is in
\* dirtySourceIds.
C4_WholeChainDirty ==
    Incremental =>
        \A c \in Keys(built.previousGraph.nodes) :
            (ChangedOnDisk(c) /\ EndsAChain(c))
                => Upstream(built.previousGraph, {c}) \subseteq dirtySourceIds

\* The analyzable sources of the universe at the last call.
AnalyzableNow == {id \in Range(scanUniverseFiles(built.files)) : isAnalyzableSource(id)}

\* C changed in a way the planner can see: it can be read and its text
\* differs, or it was a source node and is gone.
DetectablyChanged(c) ==
    /\ ChangedOnDisk(c)
    /\ c \in Keys(built.previousGraph.nodes)
    /\ \/ Exists(built.files, c)
       \/ NodeOf(built.previousGraph, c).kind = "source"

\* C4, amended: dirtySourceIds holds analyzable sources of the universe
\* only, and when C changed detectably between the calls, every analyzable
\* source of the universe with a chain of edges to C in the previous graph,
\* and C itself if it is one, is in dirtySourceIds.
C4_ChainSourcesDirty ==
    Incremental =>
        /\ dirtySourceIds \subseteq AnalyzableNow
        /\ \A c \in Keys(built.previousGraph.nodes) :
              DetectablyChanged(c)
                  => (Upstream(built.previousGraph, {c}) \cap AnalyzableNow)
                        \subseteq dirtySourceIds

\* A -> B -> C in the previous graph, C changed, and A, B, C all dirty.
C4_Witness ==
    /\ Incremental
    /\ \E c \in Keys(built.previousGraph.nodes) :
          /\ DetectablyChanged(c)
          /\ EndsAChain(c)
          /\ Cardinality(Upstream(built.previousGraph, {c})) >= Len(<< "A", "B", "C" >>)
          /\ Upstream(built.previousGraph, {c}) \subseteq dirtySourceIds

\* The nearest package root of a file on the disk of the last call.
RootOnDisk(file) == packageDirectorySync(built.files, Dirname(file))

\* The edges the last call analysed, with their origins.
AnalysedOrigins == {o \in built.origins : o.source \in dirtySourceIds}

\* C7: every tunneled edge whose barrel is external goes to a file with the
\* nearest package root of the barrel, or neither has one.
C7_CommanderRule ==
    Built =>
        \A o \in AnalysedOrigins :
            (o.edge.resolution = "implicit" /\ o.barrelIsExternal)
                => RootOnDisk(o.edge.target) = RootOnDisk(o.barrel)

\* The namespace imports of the analyzable sources of the universe.
NamespaceImports ==
    {<< s, i >> \in AnalyzableNow \X (1..3) :
        /\ i <= Len(Content(built.files[s]).statements)
        /\ Content(built.files[s]).statements[i].s = "import"
        /\ Content(built.files[s]).statements[i].bindings = "namespace"}

ExplicitEdgeFor(s, i) ==
    \E o \in built.origins :
        /\ o.source = s /\ o.stmt = i /\ o.edge.resolution = "explicit"
        /\ o.edge \in Range(EdgesOf(built.graph, s))

NoImplicitEdgeFor(s, i) ==
    \A o \in built.origins :
        ~(o.source = s /\ o.stmt = i /\ o.edge.resolution = "implicit")

-----------------------------------------------------------------------------
(* Properties of scanUniverseFiles.                                        *)

Scanned == mode = "scan" /\ call.done

Kept(path) == path \in Range(call.out)

UnderGit(path) == Head(path) = ".git"

UnderNodeModules(path) == Head(path) = "node_modules"

ExcludeMatches(path) == \E g \in call.config.excludes : GlobMatch(g, path)

IncludeMatches(path) == \E g \in call.config.includes : GlobMatch(g, path)

Gitignored(path) == ignores(call.lines, path)

\* What the rules below the implicit denials decide: exclude, then
\* include, then gitignore, then allow.
DecidedByConfig(path) ==
    IF ExcludeMatches(path) THEN FALSE
    ELSE IF IncludeMatches(path) THEN TRUE
    ELSE ~Gitignored(path)

\* C11, as stated: for every candidate, a path under .git or node_modules
\* is dropped whatever else applies, else exclude decides, else include,
\* else gitignore, else the path is kept.
C11_PrecedenceAsStated ==
    Scanned =>
        \A f \in call.candidates :
            Kept(f) <=> (IF UnderGit(f) \/ UnderNodeModules(f) THEN FALSE
                         ELSE DecidedByConfig(f))

\* C11, amended: the node_modules denial holds only for paths no include
\* glob matches; a candidate under node_modules that an include matches is
\* decided by exclude > include like any other.
C11_Precedence ==
    Scanned =>
        \A f \in call.candidates :
            Kept(f) <=> (IF UnderGit(f) \/ (UnderNodeModules(f) /\ ~IncludeMatches(f))
                         THEN FALSE
                         ELSE DecidedByConfig(f))

\* One scan with a candidate that exclude, include and gitignore all match
\* and that is dropped, and a gitignored one that include keeps.
C11_Witness ==
    /\ Scanned
    /\ \E f \in call.candidates :
          ExcludeMatches(f) /\ IncludeMatches(f) /\ Gitignored(f) /\ ~Kept(f)
    /\ \E f \in call.candidates :
          ~ExcludeMatches(f) /\ IncludeMatches(f) /\ Gitignored(f) /\ Kept(f)

-----------------------------------------------------------------------------
(* Properties of the hash/size invariant of generateDependencyGraph.       *)

Called == ~built.none

\* The source/external nodes of g with metadata.hash and no metadata.size.
HashedWithoutSize(g) ==
    {id \in Keys(g.nodes) :
        /\ NodeOf(g, id).kind \in {"source", "external"}
        /\ NodeOf(g, id).metadata.hash # NoHash
        /\ NodeOf(g, id).metadata.size = NoSize}

\* ids is in ascending localeCompare order, without repeats.
Ascending(ids) ==
    \A i, j \in 1..Len(ids) : i < j => IndexOf(IdOrder, ids[i]) < IndexOf(IdOrder, ids[j])

\* ids holds the n lowest elements of S, or all of S if it has fewer.
LowestOf(ids, S, n) ==
    /\ Range(ids) \subseteq S
    /\ Len(ids) = (IF Cardinality(S) < n THEN Cardinality(S) ELSE n)
    /\ \A x \in S \ Range(ids) : \A y \in Range(ids) :
          IndexOf(IdOrder, y) < IndexOf(IdOrder, x)

\* C12: under hashSizeEnforcement 'error' the call throws exactly when the
\* finalized graph has a source/external node with a hash and no size; the
\* failure has the number of offenders, the first 10 of them at most in
\* ascending order, and ' ...' exactly when there are more than 10.
C12_ErrorModeThrowsOnOffenders ==
    (Called /\ built.hashSizeEnforcement = "error") =>
        /\ built.threw <=> HashedWithoutSize(built.graph) # {}
        /\ built.threw =>
              /\ built.failure.count = Cardinality(HashedWithoutSize(built.graph))
              /\ Ascending(built.failure.preview)
              /\ LowestOf(built.failure.preview, HashedWithoutSize(built.graph), 10)
              /\ built.failure.ellipsis <=> built.failure.count > 10

\* A call that threw for more than 10 offenders, all of them carried from
\* previousGraph.
C12_Witness ==
    /\ Called /\ built.hashSizeEnforcement = "error" /\ built.threw
    /\ built.failure.count > 10
    /\ built.failure.ellipsis
    /\ HashedWithoutSize(built.graph) \subseteq Keys(built.plan.carriedNodes)

IsSizeWarning(e) == e.msg = "warning: metadata.size missing for hashed node"

SizeWarningIds ==
    [i \in 1..Len(SelectSeq(built.uncapped, IsSizeWarning)) |->
        SelectSeq(built.uncapped, IsSizeWarning)[i].id]

\* C13: under hashSizeEnforcement 'warn', and by default, the call returns
\* and `errors` before capping has one size warning for each offender of
\* the finalized graph, in ascending order of id; under 'ignore' it returns
\* and has none.
C13_WarnModeReportsOffenders ==
    Called =>
        /\ built.hashSizeEnforcement \in {"warn", "undefined"} =>
              /\ ~built.threw
              /\ Ascending(SizeWarningIds)
              /\ Range(SizeWarningIds) = HashedWithoutSize(built.graph)
        /\ built.hashSizeEnforcement = "ignore" =>
              /\ ~built.threw
              /\ SizeWarningIds = << >>

\* A call under the default that returned with warnings for nodes carried
\* from previousGraph, an external node among them.
C13_Witness ==
    /\ Called /\ built.hashSizeEnforcement = "undefined" /\ ~built.threw
    /\ Len(SizeWarningIds) >= Cardinality({"source", "external"})
    /\ Range(SizeWarningIds) \subseteq Keys(built.plan.carriedNodes)
    /\ \E id \in Range(SizeWarningIds) : NodeOf(built.graph, id).kind = "external"

-----------------------------------------------------------------------------
(* Properties of capErrors.                                                *)

Capped == mode = "cap" /\ call.done

IsSentinel(e) == e.msg \in {"errors truncated: total", "errors truncated: showing of"}

\* Entries of the input are missing from the output.
Truncated == Capped /\ call.out # call.errors

\* The output for a cap of m entries, m >= 1, on a longer list.
CutTo(m) ==
    IF m = 1 THEN call.out = << TruncatedTotal(Len(call.errors)) >>
    ELSE call.out = SubSeq(call.errors, 1, m - 1)
                        \o << TruncatedShowing(m - 1, Len(call.errors)) >>

\* C14, as stated: for every finite cap max the output has at most max
\* entries; a longer input gives the first max-1 entries and the `showing`
\* sentinel when max >= 2, the `total` sentinel alone when max = 1; and
\* whenever the list is truncated the sentinel is its last entry.
C14_CapAsStated ==
    (Capped /\ call.maxErrors.finite) =>
        /\ Len(call.out) + Len(call.out) <= call.maxErrors.twice
        /\ (Len(call.errors) + Len(call.errors) > call.maxErrors.twice
                /\ call.maxErrors.twice >= 2)
              => \E m \in 1..Len(call.errors) : m + m = call.maxErrors.twice /\ CutTo(m)
        /\ Truncated => (call.out # << >> /\ IsSentinel(call.out[Len(call.out)]))

\* C14, amended: with m = max(0, floor(max)) for a finite cap max, the
\* output has at most m entries; it is empty when m = 0, the input when
\* that has at most m entries, else the first m-1 entries and the `showing`
\* sentinel when m >= 2 and the `total` sentinel alone when m = 1; a
\* truncated output that is not empty ends with the sentinel.  A cap that
\* is not finite returns the input.
C14_CapOnFlooredMax ==
    Capped =>
        IF ~call.maxErrors.finite THEN call.out = call.errors
        ELSE \E m \in 0..(MaxCap + 1) :
                /\ m + m <= call.maxErrors.twice \/ m = 0
                /\ call.maxErrors.twice < m + m + 2
                /\ Len(call.out) <= m
                /\ m = 0 => call.out = << >>
                /\ Len(call.errors) <= m => call.out = call.errors
                /\ (Len(call.errors) > m /\ m >= 1) => CutTo(m)
                /\ (Truncated /\ call.out # << >>) => IsSentinel(call.out[Len(call.out)])

\* A list cut to two entries and the sentinel by a cap of three and a half.
C14_Witness ==
    /\ Capped /\ call.maxErrors.finite
    /\ call.maxErrors.twice = Len(<< "a", "b", "c" >>) + Len(<< "a", "b", "c", "d" >>)
    /\ Len(call.errors) > Len(call.out)
    /\ Len(call.out) = Len(<< "a", "b", "sentinel" >>)
    /\ IsSentinel(call.out[Len(call.out)])

-----------------------------------------------------------------------------
(* Properties of the call without a language analyzer.                     *)

\* C15: when TypeScript cannot be loaded the call returns instead of
\* throwing, the graph has a node for every universe file, an edges key for
\* every node and no edge, and `errors` is the one entry that says so.
C15_DegradesToNodesOnly ==
    (Called /\ ~tsAvailable) =>
        /\ ~built.threw
        /\ Range(scanUniverseFiles(built.files)) \subseteq Keys(built.graph.nodes)
        /\ Keys(built.graph.nodes) \subseteq Keys(built.graph.edges)
        /\ \A id \in Keys(built.graph.edges) : ValueOf(built.graph.edges, id) = << >>
        /\ built.errors = << TypeScriptMissing >>

-----------------------------------------------------------------------------
(* Properties of the selection helper on ids that are no nodes.            *)

\* The ids left after the excludes are subtracted that are no key of
\* graph.nodes.
UnknownSelected == {id \in IncludeClosure \ ExcludeClosure : ~HasNode(selGraph, id)}

\* The sizes of the nodes of the graph among the ids S.
RECURSIVE KnownBytes(_)
KnownBytes(S) ==
    IF S = {} THEN 0
    ELSE LET id == CHOOSE x \in S : TRUE
         IN  (IF HasNode(selGraph, id) /\ NodeOf(selGraph, id).metadata.size # NoSize
              THEN NodeOf(selGraph, id).metadata.size ELSE 0)
             + KnownBytes(S \ {id})

\* C16: an id that is still selected after the excludes and is no key of
\* graph.nodes is among selectedNodeIds, is not dropped by node kind, adds
\* nothing to totalBytes, and has the warning `Selected nodeId not present
\* in graph.nodes: <id>`.
C16_UnknownIdsAreKept ==
    (Summarized /\ ~summary.threw) =>
        /\ \A id \in UnknownSelected :
              /\ id \in Range(summary.selectedNodeIds)
              /\ \A w \in Range(summary.warnings) : ~(w.msg = MsgOrder[1] /\ w.id = id)
              /\ \E w \in Range(summary.warnings) : w.msg = MsgOrder[9] /\ w.id = id
              /\ \A e \in Range(summary.largest) : e.nodeId = id => e.bytes = 0
        /\ summary.totalBytes = KnownBytes(Range(summary.selectedNodeIds))

\* A selection with an id that is no node, a node with a size, and a
\* builtin or missing node dropped by kind.
C16_Witness ==
    /\ Summarized /\ ~summary.threw
    /\ UnknownSelected # {}
    /\ summary.totalBytes > 0
    /\ \E w \in Range(summary.warnings) : w.msg = MsgOrder[1]

-----------------------------------------------------------------------------
(* Properties of the nodes of returned graphs.                             *)

\* C17: in every graph generateDependencyGraph returns, no builtin or
\* missing node has metadata.hash or metadata.size.
C17_BuiltinAndMissingCarryNoHashOrSize ==
    Built =>
        \A id \in Keys(built.graph.nodes) :
            NodeOf(built.graph, id).kind \in {"builtin", "missing"}
                => /\ NodeOf(built.graph, id).metadata.hash = NoHash
                   /\ NodeOf(built.graph, id).metadata.size = NoSize

\* A returned graph with a builtin node, a missing node and a hashed
\* external node, built with a previous graph.
C17_Witness ==
    /\ Built /\ Incremental
    /\ \E b, x, e \in Keys(built.graph.nodes) :
          /\ NodeOf(built.graph, b).kind = "builtin"
          /\ NodeOf(built.graph, x).kind = "missing"
          /\ NodeOf(built.graph, e).kind = "external"
          /\ NodeOf(built.graph, e).metadata.hash # NoHash

-----------------------------------------------------------------------------
(* Properties of incremental calls.                                        *)

\* The last call had the graph the call before it returned as
\* previousGraph.
IncrementalFromReturned == Built /\ built.previous = "returned"

\* What the last call would have returned without previousGraph.
FullBuild ==
    generateDependencyGraph(built.files, built.cacheBefore, tsAvailable, NoGraph,
                            built.hashSizeEnforcement)

\* C18: whatever changed on disk since the call that returned
\* previousGraph, the call with previousGraph returns the graph the call
\* without previousGraph returns on the same disk.
C18_IncrementalAgreesWithFull ==
    IncrementalFromReturned => built.graph = FullBuild.graph

\* The universe at the last call.
UniverseNow == Range(scanUniverseFiles(built.files))

\* The changed set of the last call, from the disk and previousGraph: the
\* universe files whose hash is not the one previousGraph has for them, the
\* source nodes of previousGraph that are no universe file, and the hashed
\* nodes of previousGraph whose file now hashes to something else.
ChangedSet ==
    {id \in UniverseNow :
        \/ id \notin Keys(built.previousGraph.nodes)
        \/ NodeOf(built.previousGraph, id).metadata.hash # built.files[id]}
    \cup {id \in Keys(built.previousGraph.nodes) :
            NodeOf(built.previousGraph, id).kind = "source" /\ id \notin UniverseNow}
    \cup {id \in Keys(built.previousGraph.nodes) :
            /\ NodeOf(built.previousGraph, id).kind \in {"source", "external"}
            /\ NodeOf(built.previousGraph, id).metadata.hash # NoHash
            /\ Exists(built.files, id)
            /\ built.files[id] # NodeOf(built.previousGraph, id).metadata.hash}

\* C19: with a previous graph, dirtySourceIds is the set of analyzable
\* sources of the universe in the reverse-transitive closure, over the
\* edges of the previous graph, of the changed set.
C19_DirtyIsClosureOfChanged ==
    (Called /\ ~built.previousGraph.none) =>
        /\ Range(built.plan.changedNodeIds) = ChangedSet
        /\ dirtySourceIds = Upstream(built.previousGraph, ChangedSet) \cap AnalyzableNow

\* A call where only a file outside the universe changed, its importers
\* and theirs are dirty, and another analyzable source is clean.
C19_Witness ==
    /\ Called /\ ~built.previousGraph.none
    /\ ChangedSet # {}
    /\ ChangedSet \cap UniverseNow = {}
    /\ \E a, b \in dirtySourceIds : a # b /\ HasEdge(built.previousGraph, a, b)
    /\ AnalyzableNow \ dirtySourceIds # {}

\* C20: in every graph generateDependencyGraph returns, with or without
\* previousGraph, the target of every edge is a key of `nodes`.
C20_NoDanglingEdges ==
    Built =>
        \A s \in Keys(built.graph.edges) :
            \A e \in Range(ValueOf(built.graph.edges, s)) :
                e.target \in Keys(built.graph.nodes)

\* A graph returned with reused edges to a node that is no universe file
\* and was carried over from previousGraph.
C20_Witness ==
    /\ Built /\ Incremental
    /\ \E s \in Keys(built.plan.reusedEdgesBySource) :
          \E e \in Range(ValueOf(built.graph.edges, s)) :
              /\ e.target \in Keys(built.plan.carriedNodes)
              /\ e.target \notin UniverseNow
              /\ e.target \in Keys(built.graph.nodes)

\* The analyzable sources the last call left clean.
CleanSourceIds == AnalyzableNow \ dirtySourceIds

\* C21: after a call with previousGraph, the edge list of every clean
\* analyzable source is the previous graph's list for it, de-duplicated and
\* sorted, and the edge list of every dirty source is the one the analysis
\* of the current files gives, whatever the previous graph had for it.
C21_CleanSourcesUntouched ==
    Incremental =>
        /\ \A id \in CleanSourceIds :
              EdgesOf(built.graph, id)
                  = sortAndDedupeEdges(EdgesOf(built.previousGraph, id))
        /\ \A id \in dirtySourceIds :
              EdgesOf(built.graph, id) = EdgesOf(FullBuild.graph, id)

\* An incremental call that left a source with edges clean and gave a dirty
\* source another edge list than the previous graph had for it.
C21_Witness ==
    /\ Incremental
    /\ \E id \in CleanSourceIds :
          /\ EdgesOf(built.previousGraph, id) # << >>
          /\ EdgesOf(built.graph, id) = EdgesOf(built.previousGraph, id)
    /\ \E id \in dirtySourceIds :
          /\ EdgesOf(built.previousGraph, id) # << >>
          /\ EdgesOf(built.graph, id) # << >>
          /\ EdgesOf(built.graph, id) # EdgesOf(built.previousGraph, id)

-----------------------------------------------------------------------------
(* Properties of the re-export traversal.                                  *)

Resolved == mode = "reexport" /\ call.done

\* The file a forwarding target of `file` leads to, NoFile when it does not
\* resolve to a module of the disk.
TargetFile(files, file, t) ==
    IF resolveModuleSpecifier(files, file, t.specifier).kind = "file"
    THEN resolveModuleSpecifier(files, file, t.specifier).id ELSE NoFile

TargetsOf(files, key) ==
    Range(ForwardingTargets(Content(files[key[1]]).statements, key[2]))

\* The keys (module, name) one symbol-forwarding step after a key of K.
StepFrom(files, K) ==
    UNION {{<< TargetFile(files, k[1], t), t.importName >> :
                t \in {u \in TargetsOf(files, k) :
                          u.kind = "symbol" /\ TargetFile(files, k[1], u) # NoFile}}
           : k \in K}

\* The keys reachable from K along symbol-forwarding targets.
RECURSIVE ReachableKeys(_, _)
ReachableKeys(files, K) ==
    IF StepFrom(files, K) \subseteq K THEN K
    ELSE ReachableKeys(files, K \cup StepFrom(files, K))

\* The defining exports of (entry, exportName): a symbol for every
\* reachable key whose module defines the name, a module for every
\* namespace-forwarding target of a reachable key.
DefiningExports(files, entry, exportName) ==
    {SymbolExport(k[1], k[2]) :
        k \in {j \in ReachableKeys(files, {<< entry, exportName >>}) :
                  OwnExport(j[1], Content(files[j[1]]).statements, j[2]) # << >>}}
    \cup UNION {{ModuleExport(TargetFile(files, k[1], t)) :
                    t \in {u \in TargetsOf(files, k) :
                              u.kind = "module" /\ TargetFile(files, k[1], u) # NoFile}}
                : k \in ReachableKeys(files, {<< entry, exportName >>})}

\* Key k is on a forwarding cycle.
OnCycle(files, k) == k \in ReachableKeys(files, StepFrom(files, {k}))

WithOwnCache == visit(call.files, call.entry, call.exportName, {}, EmptyMemo).out

\* C24: a call given a cache that earlier calls filled returns the defining
\* exports it returns with a cache of its own.
C24_MemoNeverChangesResults ==
    Resolved => Range(call.out) = Range(WithOwnCache)

\* The call has returned.
Visited == mode = "visit" /\ call.done

\* The step by step call returns what visit gives and leaves its memo.
VisitStepsAgree ==
    Visited =>
        /\ call.out = visit(call.files, call.entry, call.exportName, {}, EmptyMemo).out
        /\ call.memo = visit(call.files, call.entry, call.exportName, {}, EmptyMemo).memo

\* A visit of a key of the current stack returns.
RevisitReturns == ReturnOnStack

-----------------------------------------------------------------------------
(* Properties of expandClosure.                                            *)

\* The call has returned.
Expanded == mode = "expand" /\ call.done

\* The step by step call returns what expandClosure gives.
ExpandStepsAgree ==
    Expanded =>
        call.out = expandClosure(call.graph, call.entries, DEFAULT_EDGE_KINDS).selected

\* Every element was put on the queue with more remaining depth than every
\* earlier element of the same node.
EnqueuedWithMoreDepth ==
    \A i, j \in 1..Len(call.enqueued) :
        (i < j /\ call.enqueued[i].id = call.enqueued[j].id)
            => call.enqueued[j].remaining > call.enqueued[i].remaining

\* Every element that was put on the queue with depth and kinds left has
\* been expanded: the targets of its edges of those kinds are selected and
\* known with one less than its depth, or more.
EnqueuedWereExpanded ==
    \A i \in 1..Len(call.enqueued) :
        (call.enqueued[i].remaining > 0 /\ call.enqueued[i].edgeKinds # << >>) =>
            \A e \in Range(EdgesOf(call.graph, call.enqueued[i].id)) :
                e.kind \in Range(call.enqueued[i].edgeKinds) =>
                    /\ e.target \in call.selected
                    /\ e.target \in DOMAIN call.best
                    /\ call.best[e.target] >= call.enqueued[i].remaining - 1

\* C25: every call returns, on cyclic graphs and with depths far above the
\* size of the graph; a node is put on the queue again only with more
\* remaining depth than on every earlier visit, and is then expanded again.
C25_ExpansionTerminates ==
    /\ <>Expanded
    /\ [](mode = "expand" => EnqueuedWithMoreDepth)
    /\ [](Expanded => EnqueuedWereExpanded)

\* A call on a graph with a cycle and a depth far above its size that put a
\* node on the queue twice.
C25_Witness ==
    /\ Expanded
    /\ \E i \in 1..Len(call.entries) : call.entries[i].depth = DInt(LargeDepth)
    /\ \E i, j \in 1..Len(call.enqueued) :
          i < j /\ call.enqueued[i].id = call.enqueued[j].id
    /\ \E x, y \in Keys(call.graph.edges) :
          x # y /\ HasEdge(call.graph, x, y) /\ y \in Upstream(call.graph, {x})

-----------------------------------------------------------------------------
(* Properties of generateDependencyGraph across calls.                     *)

\* What the last call returns in a process that made no call before.
InFreshProcess ==
    generateDependencyGraph(built.files, << >>, tsAvailable, built.previousGraph,
                            built.hashSizeEnforcement)

\* C26: the graph a call returns is the one the same files, options and
\* previousGraph give in a process that made no call before.
C26_NoStateBetweenCalls ==
    Built => built.graph = InFreshProcess.graph

-----------------------------------------------------------------------------
(* Properties of the commander rule.                                       *)

Filtered == mode = "commander" /\ call.done

\* No package.json in the directory of the file or above it.
HasNoPackageRoot(file) == packageDirectorySync(call.files, Dirname(file)) = NoRoot

\* C27: a declaration file without a package root is in the filtered
\* result.
C27_RootlessFilesRetained ==
    Filtered =>
        \A d \in Range(call.declarationAbsPaths) :
            HasNoPackageRoot(d) => d \in Range(call.out)

-----------------------------------------------------------------------------
(* Properties of entry normalization.                                      *)

\* The depth is no integer >= 0: negative, fractional, NaN, Infinity, no
\* number.
InvalidDepth(d) == ~(d.t = "number" /\ d.twice >= 0 /\ d.twice % 2 = 0)

ValidNodeId(id) == id # NotAString /\ ~IsBlank(id)

\* The only include entry is a tuple with a node id and an invalid depth.
OneTupleWithInvalidDepth ==
    /\ Summarized
    /\ Len(include) = 1
    /\ include[1].form = "tuple"
    /\ ValidNodeId(include[1].nodeId)
    /\ InvalidDepth(include[1].depth)

\* C28: a tuple entry with an invalid depth selects what the entry selects
\* with depth 0, and there is an invalid-depth warning for its index.
C28_InvalidDepthIsZero ==
    OneTupleWithInvalidDepth =>
        /\ summary.selectedNodeIds
              = summarizeDependencySelection(
                    selGraph, << [include[1] EXCEPT !.depth = DInt(0)] >>,
                    exclude, options).selectedNodeIds
        /\ \E w \in Range(summary.warnings) : w.msg = MsgOrder[2] /\ w.entry = 0

\* The only include entry, bare or tuple, has an empty node id or one that
\* is no string.
OneEntryWithoutNodeId ==
    /\ Summarized
    /\ Len(include) = 1
    /\ include[1].nodeId \in {"", NotAString}

\* C29: an entry with an empty or non-string node id, bare or tuple,
\* selects nothing and there is an invalid-nodeId warning for its index.
C29_EntriesWithoutNodeIdDropped ==
    OneEntryWithoutNodeId =>
        /\ summary.selectedNodeIds = << >>
        /\ \E w \in Range(summary.warnings) : w.msg = MsgOrder[5] /\ w.entry = 0

-----------------------------------------------------------------------------
(* Properties of the size warnings of the selection summary.               *)

\* The policy of the call: options.hashSizeEnforcement, 'warn' by default.
SelectionPolicy ==
    IF options.hashSizeEnforcement = "undefined" THEN DEFAULT_HASH_SIZE_ENFORCEMENT
    ELSE options.hashSizeEnforcement

\* The selected source and external nodes with neither hash nor size.
SelectedFilesWithoutHashOrSize ==
    {id \in Range(summary.selectedNodeIds) :
        /\ HasNode(selGraph, id)
        /\ NodeOf(selGraph, id).kind \in {"source", "external"}
        /\ NodeOf(selGraph, id).metadata.hash = NoHash
        /\ NodeOf(selGraph, id).metadata.size = NoSize}

\* C30: under 'warn' and 'error' every selected file node without hash and
\* size has its `metadata.size missing for file node` warning; under
\* 'ignore' the summary has no metadata.size warning at all.
C30_FileNodeSizeWarnings ==
    (Summarized /\ ~summary.threw) =>
        /\ SelectionPolicy \in {"warn", "error"} =>
              \A id \in SelectedFilesWithoutHashOrSize :
                  \E w \in Range(summary.warnings) : w.msg = MsgOrder[6] /\ w.id = id
        /\ SelectionPolicy = "ignore" =>
              \A w \in Range(summary.warnings) : w.msg \notin {MsgOrder[6], MsgOrder[7]}

====
